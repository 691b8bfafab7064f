------------------------------- MODULE Texts -------------------------------
(***************************************************************************)
(* A text on its way from spd_say() to the synthesiser: dots at the start  *)
(* of a line are doubled by the client library and halved by parse.c; the  *)
(* server puts index marks after the sentences; output.c doubles lone dots *)
(* again for the module, whose main loop halves them; the module strips    *)
(* what is not for the ear and speaks part by part.  After a pause the     *)
(* server cuts what has been said and the rest goes the same way again.    *)
(*                                                                         *)
(* A text is a sequence of characters.  "crlf" is CR LF, "lf" a newline    *)
(* alone, "a" any letter; a whole tag or entity the server wrote is one    *)
(* element too: <speak>, </speak>, a mark, &lt; &gt; &amp;.                 *)
(***************************************************************************)
EXTENDS Integers, Sequences, FiniteSets, SequencesExt

CONSTANTS
    Chars,        \* the characters of the clients' texts
    Modes,        \* "text" and "ssml", the values of ssml_mode
    MarkNames,    \* the names of the marks, in their order; bound: their number
    PartLength,   \* maxlen of module_get_message_part()
    MaxLength,    \* bound: the length of a text
    MaxResumes    \* bound: how often a text is paused and resumed

Characters == {"a", ".", "crlf", "lf", "<", ">", "&"}
Entities   == {"&lt", "&gt", "&amp"}

ASSUME TextsAssumption ==
    /\ Chars \subseteq Characters
    /\ Modes \subseteq {"text", "ssml"}
    /\ MarkNames \in Seq(ToSet(MarkNames))
    /\ \A i, j \in DOMAIN MarkNames : MarkNames[i] = MarkNames[j] => i = j
    /\ ToSet(MarkNames) \cap (Characters \cup Entities \cup {"<speak>", "</speak>", "?"}) = {}
    /\ PartLength \in Nat \ {0} /\ {MaxLength, MaxResumes} \subseteq Nat

VARIABLES
    mode, text,    \* what the client says
    stage,
    buf,           \* the text on its way; msg->buf once the server has it
    received,      \* what the module has read of it
    leftover,      \* what the module will take for commands
    index_mark,    \* the last mark of the server reported, -1 for none
    heard,         \* what has been spoken
    resumes,
    spoiled        \* ghost: a resume has met one of the cases of Spoils
texts_vars == <<mode, text, stage, buf, received, leftover, index_mark, heard,
                resumes, spoiled>>

Newlines == {"lf", "crlf"}
Mark(n)  == MarkNames[n + 1]
Marks    == ToSet(MarkNames)
Tags     == {"<speak>", "</speak>"} \cup Marks

\* each position of t is replaced by the sequence by[i]
Replaced(t, by(_)) == FlattenSeq([i \in DOMAIN t |-> by(i)])

\* t without the elements of S
Without(t, S) ==
    LET By(i) == IF t[i] \in S THEN <<>> ELSE <<t[i]>>
    IN  Replaced(t, By)

-----------------------------------------------------------------------------
(* From the client to the server.                                          *)

StartsLine(t, i, newlines) == i = 1 \/ t[i - 1] \in newlines

\* libopentts.c
EscapeDots(t) ==
    LET By(i) == IF t[i] = "." /\ StartsLine(t, i, {"crlf"}) THEN <<".", ".">> ELSE <<t[i]>>
    IN  Replaced(t, By)

\* serve() and parse(): the lines before the first one that is a lone dot,
\* without the line end that came with the dot.  o_bytes > 2 spares it when
\* it is all there is.
DataOf(t) ==
    LET end == CHOOSE i \in DOMAIN t :
                 LET Ends(j) == /\ t[j] = "." /\ StartsLine(t, j, {"crlf"})
                                /\ j < Len(t) /\ t[j + 1] = "crlf"
                 IN  Ends(i) /\ \A j \in 1..(i - 1) : ~Ends(j)
        data == SubSeq(t, 1, end - 1)
    IN  IF Len(data) > 1 THEN Front(data) ELSE data

\* Mutant: the dots of the client library are left doubled.
DeescapesNothing(t) == t

\* the second of two dots that start a line
deescape_dot(t) ==
    LET By(i) == IF i > 1 /\ t[i] = "." /\ t[i - 1] = "." /\ StartsLine(t, i - 1, {"crlf"})
                 THEN <<>> ELSE <<t[i]>>
    IN  Replaced(t, By)

-----------------------------------------------------------------------------
(* In the server.                                                          *)

InsideTag(t, i) ==
    \E j \in 1..(i - 1) :
        t[j] = "<" /\ \A k \in (j + 1)..(i - 1) : t[k] \notin {">"} \cup Tags

\* Mutant: the mode is not looked at, a dot in a tag ends a sentence too.
EndsAnywhere(t, i, m) ==
    /\ t[i] = "." /\ i < Len(t)
    /\ t[i + 1] \in Newlines \cup {"<", "&"} \cup Tags \cup Entities

\* Before a space, a tag or an entity; not at the end of the text.
EndsSentence(t, i, m) ==
    /\ t[i] = "." /\ (m = "ssml" => ~InsideTag(t, i))
    /\ i < Len(t) /\ t[i + 1] \in Newlines \cup {"<", "&"} \cup Tags \cup Entities

\* A plain text must not look like markup: "<" becomes &lt; also where a tag
\* or an entity of the server's own is read again.
Quoted(c) ==
    CASE c = "<" -> <<"&lt">> [] c = ">" -> <<"&gt">> [] c = "&" -> <<"&amp">>
      [] c \in Tags -> <<"&lt", "a", "&gt">>
      [] c \in Entities -> <<"&amp", "a">>
      [] OTHER -> <<c>>

\* the sentences that end before position i
EndsBefore(t, i, m) == {j \in 1..(i - 1) : EndsSentence(t, j, m)}

insert_index_marks(t, m) ==
    LET Number(i) == Cardinality(EndsBefore(t, i, m))
        By(i) == (IF m = "text" THEN Quoted(t[i]) ELSE <<t[i]>>)
                 \o (IF EndsSentence(t, i, m) THEN <<Mark(Number(i))>> ELSE <<>>)
    IN  IF m = "text" THEN <<"<speak>">> \o Replaced(t, By) \o <<"</speak>">>
        ELSE Replaced(t, By)

\* Mutant: a text goes to the module as it is.
EscapesNothing(t) == t

\* A dot that is a line of its own is doubled.  The newline before it and the one
\* after it are taken together, so of lone dots in a row every other one is.
escape_dot(t) ==
    LET Lone(i)   == /\ t[i] = "." /\ StartsLine(t, i, Newlines)
                     /\ i = Len(t) \/ t[i + 1] = "lf"
        Row(i, j) == \A k \in i..j : (j - k) % 2 = 0 => Lone(k)
        Found(i)  == \E first \in 1..i :
                        /\ Row(first, i) /\ (first > 2 => ~Lone(first - 2))
                        /\ (i - first) % 4 = 0
        By(i)     == IF Found(i) THEN <<".", ".">> ELSE <<t[i]>>
    IN  Replaced(t, By)

\* the text after the first mark of that number; <<"?">> when there is none
find_index_mark(t, n) ==
    IF Contains(t, Mark(n))
    THEN SubSeq(t, SelectInSeq(t, LAMBDA c : c = Mark(n)) + 1, Len(t)) ELSE <<"?">>

strip_index_marks(t, m) ==
    LET plain == Without(t, Marks)
        end   == SelectInSeq(plain, LAMBDA c : c = "</speak>")
    IN  IF m = "ssml" THEN <<"<speak>">> \o plain
        ELSE IF end = 0 THEN plain ELSE SubSeq(plain, 1, end - 1)

-----------------------------------------------------------------------------
(* In the module.                                                          *)

\* do_message(): [msg, rest], the lines before the first lone dot, with those of
\* two dots halved and without the last newline, and what is left in the pipe
do_message(t) ==
    LET LoneDot(i) == t[i] = "." /\ StartsLine(t, i, Newlines) /\ t[i + 1] = "lf"
        end == CHOOSE i \in 1..(Len(t) - 1) : LoneDot(i) /\ \A j \in 1..(i - 1) : ~LoneDot(j)
        By(i) == IF /\ i > 1 /\ t[i - 1] = "." /\ StartsLine(t, i - 1, Newlines)
                    /\ t[i] = "." /\ t[i + 1] = "lf"
                 THEN <<>> ELSE <<t[i]>>
        msg == Replaced(SubSeq(t, 1, end - 1), By)
    IN  [msg |-> IF msg = <<>> THEN msg ELSE Front(msg),
         rest |-> SubSeq(t, end + 2, Len(t))]

module_strip_ssml(t) ==
    LET By(i) == CASE t[i] = "&lt" -> <<"<">> [] t[i] = "&gt" -> <<">">>
                   [] t[i] = "&amp" -> <<"&">>
                   [] t[i] \in Tags \cup {"<", ">"} \/ InsideTag(t, i) -> <<>>
                   [] OTHER -> <<t[i]>>
    IN  Replaced(t, By)

\* The parts end after a dot before a newline, between two newlines, or when
\* they are full; in the last few characters of a message nothing is looked for.
MessageParts(t) ==
    LET Ends(pos, i) ==
          LET p == pos + i - 1
          IN  \/ i = PartLength \/ p = Len(t)
              \/ /\ Len(t) - i > 2 /\ t[p + 1] \in Newlines
                 /\ t[p] = "." \/ (t[p] = "lf" /\ t[p + 1] = "lf")
                    \/ (Len(t) - i > 4 /\ t[p] = "crlf" /\ t[p + 1] = "crlf")
        Size(pos) == CHOOSE i \in 1..PartLength :
                        Ends(pos, i) /\ \A j \in 1..(i - 1) : ~Ends(pos, j)
        from[pos \in 1..(Len(t) + 1)] ==
          IF pos > Len(t) THEN <<>>
          ELSE <<SubSeq(t, pos, pos + Size(pos) - 1)>> \o from[pos + Size(pos)]
    IN  from[1]

\* A synthesiser that reads SSML speaks all but the tags of the server.
Spoken(t, m) ==
    IF m = "text" THEN FlattenSeq(MessageParts(module_strip_ssml(t)))
    ELSE Without(t, Tags)

-----------------------------------------------------------------------------
TextsInit ==
    /\ mode \in Modes
    /\ text \in UNION {[1..n -> Chars] : n \in 0..MaxLength}
    /\ stage = "client"
    /\ buf = text /\ received = <<>> /\ leftover = <<>>
    /\ index_mark = -1 /\ heard = <<>>
    /\ resumes = 0 /\ spoiled = FALSE

Step(from, to) == stage = from /\ stage' = to /\ UNCHANGED <<mode, text>>

spd_say ==
    /\ Step("client", "lines")
    /\ buf' = EscapeDots(buf) \o <<"crlf", ".", "crlf">>
    /\ UNCHANGED <<received, leftover, index_mark, heard, resumes, spoiled>>

parse ==
    /\ Step("lines", "queued")
    /\ buf' = deescape_dot(DataOf(buf))
    /\ UNCHANGED <<received, leftover, index_mark, heard, resumes, spoiled>>

speak ==
    /\ Step("queued", "marked")
    /\ Cardinality(EndsBefore(buf, Len(buf), mode)) <= Len(MarkNames)
    /\ buf' = insert_index_marks(buf, mode)
    /\ UNCHANGED <<received, leftover, index_mark, heard, resumes, spoiled>>

\* output_speak(), and the module that reads
output_speak ==
    /\ Step("marked", "received")
    /\ buf' = escape_dot(buf)
    /\ LET read == do_message(escape_dot(buf) \o <<"lf", ".", "lf">>)
       IN  received' = read.msg /\ leftover' = read.rest
    /\ UNCHANGED <<index_mark, heard, resumes, spoiled>>

SpeaksAll ==
    /\ Step("received", "spoken")
    /\ heard' = heard \o Spoken(received, mode)
    /\ UNCHANGED <<buf, received, leftover, index_mark, resumes, spoiled>>

\* What a resume does not put together again: a plain text is not unquoted
\* when it is cut, nor are its tags removed when it is taken whole, which is
\* what a module that pauses without a mark asks for; and index_mark is kept
\* though the marks of the rest are numbered afresh.
Spoils(marked, rest) ==
    \/ mode = "text" /\ (~marked \/ \E i \in DOMAIN rest : rest[i] \in Entities)
    \/ ~marked /\ index_mark # -1

PausesAtMark(n) ==
    /\ Step("received", "paused") /\ resumes < MaxResumes
    /\ Contains(received, Mark(n))
    /\ index_mark' = n
    /\ heard' = heard \o Spoken(SubSeq(received, 1,
                  SelectInSeq(received, LAMBDA c : c = Mark(n))), mode)
    /\ spoiled' = (spoiled \/ Spoils(TRUE, find_index_mark(buf, n)))
    /\ UNCHANGED <<buf, received, leftover, resumes>>

\* no mark since the message was sent
Pauses ==
    /\ Step("received", "paused") /\ resumes < MaxResumes
    /\ spoiled' = (spoiled \/ Spoils(FALSE, <<>>))
    /\ UNCHANGED <<buf, received, leftover, index_mark, heard, resumes>>

reload_message ==
    /\ stage = "paused" /\ resumes' = resumes + 1
    /\ IF index_mark = -1
       THEN stage' = "queued" /\ UNCHANGED buf
       ELSE LET rest == find_index_mark(buf, index_mark)
            IN  IF rest = <<"?">> THEN stage' = "lost" /\ UNCHANGED buf
                ELSE stage' = "queued" /\ buf' = strip_index_marks(rest, mode)
    /\ UNCHANGED <<mode, text, received, leftover, index_mark, heard, spoiled>>

TextsNext ==
    \/ spd_say \/ parse \/ speak \/ output_speak \/ SpeaksAll \/ Pauses
    \/ \E n \in 0..(Len(MarkNames) - 1) : PausesAtMark(n)
    \/ reload_message

TextsSpec == TextsInit /\ [][TextsNext]_texts_vars

-----------------------------------------------------------------------------
\* Lines of SSML that the server sends to the module as they are, for it put
\* no mark after their dot: inside a tag two lone dots in a row end the
\* message, and a line of two dots, there or at the end of the text, loses one.
RawDots ==
    /\ mode = "ssml"
    /\ \E i \in DOMAIN text :
          /\ text[i] = "."
          /\ \/ InsideTag(text, i)
             \/ i = Len(text) /\ i > 1 /\ text[i - 1] = "." /\ StartsLine(text, i - 1, Newlines)

\* What is heard in the end is what the client said, however often it was
\* paused and resumed: all that was done to it on the way is undone.  (Of an
\* empty text the line end before the dot is heard, see DataOf.)
HeardIsSent ==
    stage = "spoken" /\ ~spoiled /\ ~RawDots
    => heard = IF text = <<>> THEN <<"crlf">> ELSE text

\* The module never sees the end of a message in the middle of it, and so
\* never takes the rest of the text for commands.
StaysInStep == ~RawDots => leftover = <<>>

\* "This relies on ordered SD_MARK_BODY index marks": the marks are numbered
\* in the order of the text and none is inside a tag.
MarksBefore(t, i) == {j \in 1..(i - 1) : t[j] \in Marks}
Numbered(t)       == \A i \in DOMAIN t : t[i] \in Marks =>
                        t[i] = Mark(Cardinality(MarksBefore(t, i))) /\ ~InsideTag(t, i)
MarksInOrder ==
    stage = "received" /\ ~spoiled /\ (mode = "ssml" => index_mark # -1 \/ resumes = 0)
    => Numbered(buf)
=============================================================================
