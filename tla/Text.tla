---------------------------------- MODULE Text ----------------------------------
(***************************************************************************)
(* How texts are cut, decoded and escaped on their way through the         *)
(* service: segments of a path and fields of a form (src/util.c:96-160,    *)
(* src/routes.c:149-171), a command on its way into the JSON for the guest *)
(* agent, and its output on the way back (src/util.c:163-225).             *)
(*                                                                         *)
(* A text is a sequence of characters, a character a short string.  What   *)
(* the browser, the parser of JSON and the encoder of the agent do is      *)
(* defined here too, as the other end of each way.                         *)
(***************************************************************************)
EXTENDS Places

CONSTANTS
    FormChars, JsonChars, Bytes,    \* what the texts consist of
    TextNull,                       \* NULL
    MaxText                         \* bound: their length

ASSUME TextAssumption == Bytes \subseteq 0 .. 255 /\ MaxText \in Nat

\* The texts over a set of characters, up to a length.
TextsOf(chars, n) == UNION {[1 .. k -> chars] : k \in 0 .. n}

-----------------------------------------------------------------------------
(* Paths.                                                                  *)

\* path_segment(): index counts from 0; an empty segment is no segment.  The
\* segment k + 1 begins behind the "/" that ends segment k, if one does.
PathSegment(url, index) ==
    LET end(p) == First({q \in p .. Len(url) : url[q] = "/"}, Len(url) + 1)
        begin[k \in 0 .. index] ==
            IF k > 0 THEN end(begin[k - 1]) + 1
            ELSE IF url # <<>> /\ url[1] = "/" THEN 2 ELSE 1
        p == begin[index]
    IN  IF p > Len(url) \/ end(p) = p THEN TextNull ELSE SubSeq(url, p, end(p) - 1)

Joined(segments) == Seqs!FlattenSeq([i \in DOMAIN segments |-> <<"/">> \o segments[i]])

-----------------------------------------------------------------------------
(* Forms.                                                                  *)

\* What a browser escapes, of the characters here, and how.
Escaped == {"%", "&", "+", "=", " "}
HexOf(c) ==
    CASE c = "%" -> <<"2", "5">> [] c = "&" -> <<"2", "6">> [] c = "+" -> <<"2", "B">>
      [] c = "=" -> <<"3", "D">> [] c = " " -> <<"2", "0">>
HexDigits == {"0", "2", "3", "5", "6", "B", "D"}

\* (char)(hi * 16 + lo); what is none of the above is some other character.
CharOf(digits) ==
    LET fitting == {c \in Escaped : HexOf(c) = digits}
    IN  IF fitting = {} THEN "other" ELSE CHOOSE c \in fitting : TRUE

\* application/x-www-form-urlencoded: htmx escapes spaces, a browser need not.
FormChar(c, plus) ==
    CASE c = " " /\ plus       -> <<"+">>
      [] c \notin Escaped      -> <<c>>
      [] OTHER                 -> <<"%", HexOf(c)[1], HexOf(c)[2]>>

Encoded(text, plus) == Seqs!FlattenSeq([i \in DOMAIN text |-> FormChar(text[i], plus)])

Body(fields, plus) ==
    Seqs!FlattenSeq([i \in DOMAIN fields |->
        (IF i = 1 THEN <<>> ELSE <<"&">>) \o fields[i].key
            \o <<"=">> \o Encoded(fields[i].value, plus)])

\* Mutant of UrlDecode: an escape at the very end is left as it is.
UrlDecodeShort(text) ==
    LET from[i \in 1 .. Len(text) + 3] ==
            IF i > Len(text) THEN <<>>
            ELSE IF text[i] = "%" /\ i + 2 < Len(text)
                    /\ {text[i + 1], text[i + 2]} \subseteq HexDigits
                 THEN <<CharOf(<<text[i + 1], text[i + 2]>>)>> \o from[i + 3]
            ELSE <<IF text[i] = "+" THEN " " ELSE text[i]>> \o from[i + 1]
    IN  from[1]

\* url_decode()
UrlDecode(text) ==
    LET from[i \in 1 .. Len(text) + 3] ==
            IF i > Len(text) THEN <<>>
            ELSE IF text[i] = "%" /\ i + 2 <= Len(text)
                    /\ {text[i + 1], text[i + 2]} \subseteq HexDigits
                 THEN <<CharOf(<<text[i + 1], text[i + 2]>>)>> \o from[i + 3]
            ELSE <<IF text[i] = "+" THEN " " ELSE text[i]>> \o from[i + 1]
    IN  from[1]

\* form_value(): the key is searched as a text, and is a key only at the
\* beginning of a field and before a "=".
FormValue(form, key) ==
    LET found(p) == {q \in p .. Len(form) - Len(key) + 1 :
                       SubSeq(form, q, q + Len(key) - 1) = key}
        isKey(q) == /\ q = 1 \/ form[q - 1] = "&"
                    /\ q + Len(key) <= Len(form) /\ form[q + Len(key)] = "="
        value(v) == SubSeq(form, v, First({e \in v .. Len(form) : form[e] = "&"},
                                          Len(form) + 1) - 1)
        search[p \in 1 .. Len(form) + 1] ==
            IF found(p) = {} THEN TextNull
            ELSE LET q == First(found(p), 0)
                 IN  IF isKey(q) THEN UrlDecode(value(q + Len(key) + 1))
                     ELSE search[q + Len(key)]
    IN  search[1]

-----------------------------------------------------------------------------
(* Commands for the guest.                                                 *)

\* json_escape(), of a character and of a text
JsonChar(c) ==
    CASE c = "quote"     -> <<"backslash", "quote">>
      [] c = "backslash" -> <<"backslash", "backslash">>
      [] c = "newline"   -> <<"backslash", "n">>
      [] c = "return"    -> <<"backslash", "r">>
      [] c = "tab"       -> <<"backslash", "t">>
      [] OTHER -> <<c>>

JsonEscape(text) == Seqs!FlattenSeq([i \in DOMAIN text |-> JsonChar(text[i])])

\* What a character means behind a backslash.
Unescaped(c) ==
    CASE c = "n" -> "newline" [] c = "r" -> "return" [] c = "t" -> "tab" [] OTHER -> c

\* The agent: a string up to its closing quote, in which no control character
\* may stand as it is.
JsonRead(text) ==
    LET from[i \in 1 .. Len(text) + 2] ==
            IF i > Len(text) \/ text[i] \in {"newline", "return", "tab"} THEN <<"invalid">>
            ELSE IF text[i] = "quote" THEN IF i = Len(text) THEN <<>> ELSE <<"invalid">>
            ELSE IF text[i] = "backslash"
                 THEN IF i = Len(text) THEN <<"invalid">>
                      ELSE <<Unescaped(text[i + 1])>> \o from[i + 2]
            ELSE <<text[i]>> \o from[i + 1]
    IN  from[1]

-----------------------------------------------------------------------------
(* The output of the guest: base64, here the values of its digits; Pad is  *)
(* "=".                                                                    *)

Pad == 64

\* The agent.
Base64(bytes) ==
    LET byte(i) == IF i <= Len(bytes) THEN bytes[i] ELSE 0
        group(g) ==
            LET word == (byte(3 * g - 2) * 256 + byte(3 * g - 1)) * 256 + byte(3 * g)
            IN  <<word \div 262144, (word \div 4096) % 64,
                  IF 3 * g - 1 <= Len(bytes) THEN (word \div 64) % 64 ELSE Pad,
                  IF 3 * g <= Len(bytes) THEN word % 64 ELSE Pad>>
    IN  Seqs!FlattenSeq([g \in 1 .. (Len(bytes) + 2) \div 3 |-> group(g)])

\* base64_decode(): its variables after each digit.  Of the unsigned buf only
\* the lowest 14 bits are ever read; out has no room beyond alloc.
Base64Decode(digits) ==
    LET bits[i \in 0 .. Len(digits)] ==
            IF i = 0 THEN 0
            ELSE IF digits[i] = Pad THEN bits[i - 1]
            ELSE (bits[i - 1] + 6) % 8
        buf[i \in 0 .. Len(digits)] ==
            IF i = 0 THEN 0
            ELSE IF digits[i] = Pad THEN buf[i - 1]
            ELSE (buf[i - 1] * 64 + digits[i]) % 16384
        out[i \in 0 .. Len(digits)] ==
            IF i = 0 THEN <<>>
            ELSE IF digits[i] = Pad \/ bits[i - 1] + 6 < 8 THEN out[i - 1]
            ELSE Append(out[i - 1], (buf[i] \div 2 ^ bits[i]) % 256)
    IN  out[Len(digits)]

Base64Alloc(digits) == (Len(digits) \div 4) * 3 + 4

-----------------------------------------------------------------------------
\* A segment has its place in the path, and there is none after the last.
PathsSplit ==
    \A s \in TextsOf({"a", "%", "+"}, 2) \ {<<>>}, t \in {<<"a">>, <<"%", "a">>} :
        \A url \in {Joined(<<s, t>>), Joined(<<t, s>>)} :
            /\ {PathSegment(url, 0), PathSegment(url, 1)} = {s, t}
            /\ PathSegment(url, 2) = TextNull

\* The keys of a form, "name" and "description", in either order.
FormsKept ==
    \A v \in TextsOf(FormChars, MaxText), w \in TextsOf(FormChars, 1) :
        LET n == [key |-> <<"n">>, value |-> v]
            d == [key |-> <<"d">>, value |-> w]
        IN  \A form \in {Body(f, plus) : f \in {<<n, d>>, <<d, n>>}, plus \in BOOLEAN} :
                /\ FormValue(form, <<"n">>) = v
                /\ FormValue(form, <<"d">>) = w
                /\ FormValue(form, <<"t">>) = TextNull

CommandsKept ==
    \A c \in TextsOf(JsonChars, MaxText) : JsonRead(Append(JsonEscape(c), "quote")) = c

OutputKept ==
    \A o \in TextsOf(Bytes, MaxText) :
        /\ Base64Decode(Base64(o)) = o
        /\ Len(o) < Base64Alloc(Base64(o))
=============================================================================
