--------------------------------- MODULE Config ---------------------------------
(***************************************************************************)
(* The configuration that main() starts with (src/config.c, src/main.c):   *)
(* defaults, then the files of a directory, then the options.              *)
(*                                                                         *)
(* A file is the sequence of its characters, a character a short string; a *)
(* key and a value are texts too.  A name in the directory is its place in *)
(* the alphabetical order and whether it ends in ".conf".                  *)
(***************************************************************************)
EXTENDS Places, FiniteSets

CONSTANTS
    Chars,              \* what keys and values consist of
    Keys, Values,       \* of settings: texts, and what may stand for them
    Default,            \* the value of a setting nobody makes
    MaxLine, MaxValue,  \* 511 and 255: what the buffers hold
    MaxFile, MaxFiles   \* 65535 bytes, 128 files

Blank == {"space", "tab", "return", "newline"}

Marks == {"#", "semicolon", "["}

\* A file can say no more: blanks around a text are lost, a line is one
\* setting, and its key ends at the first "=".
Tight(text) == text # <<>> => text[1] \notin Blank /\ text[Len(text)] \notin Blank
Settable(text) == text \in Seq(Chars) /\ Tight(text)
Naming(text) ==
    /\ Settable(text) /\ text # <<>> /\ text[1] \notin Marks
    /\ \A i \in DOMAIN text : text[i] # "="

ASSUME CharAssumption == "newline" \notin Chars /\ "x" \in Chars
ASSUME KeyAssumption == \A k \in Keys : Naming(k)
ASSUME ValueAssumption == \A v \in Values : Settable(v) /\ Len(v) <= MaxValue
ASSUME BufferAssumption ==
    /\ MaxLine \in Nat /\ MaxValue \in Nat /\ MaxFile \in Nat
    /\ MaxFiles \in Nat /\ MaxFiles >= 3 /\ MaxLine >= 2
    /\ \A k \in Keys, v \in Values :
          Len(k) + 1 + Len(v) <= MaxLine /\ Len(k) + 2 + Len(v) <= MaxFile

Cut(text, n) == IF Len(text) <= n THEN text ELSE SubSeq(text, 1, n)

Trim(text) ==
    LET said == {i \in DOMAIN text : text[i] \notin Blank}
    IN  SubSeq(text, First(said, 1), LastIn(said, 0))

-----------------------------------------------------------------------------
\* config_parse_line(): unknown keys are passed over.
ParseLine(cfg, key, value) ==
    IF key \in Keys THEN [cfg EXCEPT ![key] = Cut(value, MaxValue)] ELSE cfg

\* The loop of config_parse_buffer(), for one line.
ReadLine(cfg, line) ==
    LET s == Trim(line)
        equals == {i \in DOMAIN s : s[i] = "="}
        eq == First(equals, 0)
    IN  IF equals = {} \/ s[1] \in Marks THEN cfg
        ELSE ParseLine(cfg, Trim(SubSeq(s, 1, eq - 1)),
                       Trim(SubSeq(s, eq + 1, Len(s))))

\* The whole loop: where the next line begins, and the settings so far.  What
\* is too long for a line is passed over, or is another line if it is the end
\* of the file.
ParseBuffer(cfg, buf) ==
    LET eol(p) == First({q \in p .. Len(buf) : buf[q] = "newline"}, Len(buf) + 1)
        line(p) == Cut(SubSeq(buf, p, eol(p) - 1), MaxLine)
        beyond(p) == IF eol(p) <= Len(buf) THEN eol(p) + 1 ELSE p + Len(line(p))
        begin[k \in 0 .. Len(buf)] == IF k = 0 THEN 1 ELSE beyond(begin[k - 1])
        after[k \in 0 .. Len(buf)] ==
            IF k = 0 THEN cfg ELSE ReadLine(after[k - 1], line(begin[k - 1]))
    IN  after[Len(buf)]

\* The files config_load_dropins() collects, the first that readdir() returns.
Confs(dir) ==
    {i \in DOMAIN dir :
        dir[i].conf /\ Cardinality({j \in 1 .. i : dir[j].conf}) <= MaxFiles}

\* Mutant of Collected: the files are read as readdir() returns them.
CollectedRaw(dir) ==
    LET order == CHOOSE p \in [1 .. Cardinality(Confs(dir)) -> Confs(dir)] :
                    \A i, j \in DOMAIN p : i < j => p[i] < p[j]
    IN  [i \in DOMAIN order |-> dir[order[i]]]

\* They are sorted.
Collected(dir) ==
    CHOOSE s \in [1 .. Cardinality(Confs(dir)) -> {dir[i] : i \in Confs(dir)}] :
        \A i, j \in DOMAIN s : i < j => s[i].stem < s[j].stem

\* One of them; what cannot be opened or is too large is passed over.
LoadFile(cfg, f) ==
    IF f.opens /\ Len(f.text) \in 1 .. MaxFile THEN ParseBuffer(cfg, f.text) ELSE cfg

\* main(): the options come last.
Config(dir, options) ==
    LET files == Collected(dir)
        loaded[i \in 0 .. Len(files)] ==
            IF i = 0 THEN [k \in Keys |-> Default] ELSE LoadFile(loaded[i - 1], files[i])
    IN  [k \in Keys |-> IF k \in DOMAIN options THEN options[k] ELSE loaded[Len(files)][k]]

-----------------------------------------------------------------------------
(* What a user writes: settings, plain or with blanks, comments, headings. *)

Items == [as : {"plain", "blanks"}, key : Keys \cup {<<"x">>}, value : Values]
         \cup [as : {"comment", "heading"}, key : Keys, value : Values \ {<<>>}]

Written(item) ==
    LET setting == item.key \o <<"=">> \o item.value
    IN  CASE item.as = "plain"   -> setting
          [] item.as = "blanks"  -> <<"space">> \o item.key \o <<"tab", "=", "space">>
                                        \o item.value \o <<"space", "return">>
          [] item.as = "comment" -> <<"space", "#", "=", "space", "space">> \o setting \o setting
          [] OTHER               -> <<"[">> \o setting \o <<"]">>

IsSetting(item) == item.as \in {"plain", "blanks"}

\* Lines of any length, the last of them ended or not too long.
WellFormed(items, ended) ==
    /\ \A i \in DOMAIN items :
          IsSetting(items[i]) => Len(Written(items[i])) <= MaxLine
    /\ ended \/ items = <<>> \/ Len(Written(items[Len(items)])) <= MaxLine

FileOf(items, ended) ==
    Seqs!FlattenSeq([i \in DOMAIN items |->
        Written(items[i]) \o (IF ended \/ i < Len(items) THEN <<"newline">> ELSE <<>>)])

\* The value that the last of them that is a setting of the key gives to it.
LastOf(items, key, other) ==
    LET of == {i \in DOMAIN items : IsSetting(items[i]) /\ items[i].key = key}
    IN  IF of = {} THEN other ELSE items[LastIn(of, 0)].value

-----------------------------------------------------------------------------
\* A file means the last setting of each key in it.
FilesRead ==
    \A items \in Seqs!SeqOf(Items, 2), ended \in BOOLEAN :
        WellFormed(items, ended) =>
            ParseBuffer([k \in Keys |-> Default], FileOf(items, ended)) =
                [k \in Keys |-> LastOf(items, k, Default)]

\* The last file in alphabetical order, whatever readdir() says, and an option
\* before any file.
Setting(k, v) == [as |-> "plain", key |-> k, value |-> v]
FileWith(n, conf, opens, s) ==
    [stem |-> n, conf |-> conf, opens |-> opens, text |-> FileOf(<<s>>, TRUE)]

Override ==
    \A key, other \in Keys, u, v, w \in Values, conf, opens \in BOOLEAN :
        LET files == {FileWith(1, TRUE, TRUE, Setting(key, u)),
                      FileWith(2, conf, opens, Setting(key, v)),
                      FileWith(3, TRUE, TRUE, Setting(other, w))}
            made == <<Setting(key, u)>>
                    \o (IF conf /\ opens THEN <<Setting(key, v)>> ELSE <<>>)
                    \o <<Setting(other, w)>>
            read == [k \in Keys |-> LastOf(made, k, Default)]
        IN  \A dir \in [1 .. 3 -> files] :
                (\A i, j \in 1 .. 3 : dir[i] = dir[j] => i = j) =>
                    /\ Config(dir, <<>>) = read
                    /\ Config(dir, [k \in {key} |-> u]) = [read EXCEPT ![key] = u]
=============================================================================
