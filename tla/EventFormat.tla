----------------------------- MODULE EventFormat -----------------------------
(***************************************************************************)
(* The text of server-sent events: how a server of this library writes one *)
(* (message.hpp) and how the client's readers take one apart               *)
(* (client/response.hpp).                                                  *)
(*                                                                         *)
(* A text is a sequence of tokens: the names of fields, the separators     *)
(* below, and the words that values are made of.  An event is a function   *)
(* from the fields it has to their values.                                 *)
(***************************************************************************)
EXTENDS Naturals, Sequences

CONSTANTS
  Words,      \* the tokens of a text
  Numerals    \* those that std::from_chars reads as a uint64_t

NewLine == "\n"
Return == "\r"
Colon == ":"
Space == " "
Separators == {NewLine, Return, Colon, Space}

FieldSet == {"event", "id", "data", "retry"}

ASSUME WordAssumption ==
  Separators \subseteq Words /\ FieldSet \subseteq Words /\ Numerals \subseteq Words

NoField == [f \in {} |-> <<>>]
Valid(event) == DOMAIN event # {}

-----------------------------------------------------------------------------
(* Writing.                                                                *)

Prompt(f) == <<f, Colon, Space>>
FieldLine(f, value) == Prompt(f) \o value \o <<NewLine>>

\* The fields of an event in the order in which they are written.
InOrder(texts) == texts["event"] \o texts["id"] \o texts["data"] \o texts["retry"]

\* server_sent_event::to_http_chunk: a line per field, and nothing after the
\* last one.
ToHttpChunk(event) ==
  InOrder([f \in FieldSet |->
    IF f \in DOMAIN event THEN FieldLine(f, event[f]) ELSE <<>>])

\* A value of several lines in several fields: the name is repeated after
\* each newline.
Folded(f, value) ==
  LET upto[i \in 0..Len(value)] ==
        IF i = 0 THEN <<>>
        ELSE upto[i - 1] \o (IF value[i] = NewLine THEN <<NewLine>> \o Prompt(f)
                             ELSE <<value[i]>>)
  IN  upto[Len(value)]

\* What a server writes that follows the format, as examples/server.js: lines
\* and an empty line after them; for no event a comment that keeps alive.
ToLines(event) ==
  IF ~Valid(event) THEN <<Colon, NewLine, NewLine>>
  ELSE InOrder([f \in FieldSet |->
         IF f \in DOMAIN event THEN FieldLine(f, Folded(f, event[f])) ELSE <<>>])
       \o <<NewLine>>

-----------------------------------------------------------------------------
(* Reading.                                                                *)

\* The first position of a token, or the one behind the end.
Find(text, t) ==
  CHOOSE i \in 1..(Len(text) + 1) :
    /\ i = Len(text) + 1 \/ text[i] = t
    /\ \A j \in 1..(i - 1) : text[j] # t

\* Mutant of FieldOf: the last colon ends the name of the field.
FieldOfLastColon(line) ==
  LET colons == {i \in DOMAIN line : line[i] = Colon}
  IN  IF colons = {} THEN line
      ELSE SubSeq(line, 1, (CHOOSE i \in colons : \A j \in colons : j <= i) - 1)

\* parse_sse_line: up to the first colon is the name of the field, after it
\* the value, without a space at its start.
FieldOf(line) == SubSeq(line, 1, Find(line, Colon) - 1)

ValueOf(line) ==
  LET value == SubSeq(line, Len(FieldOf(line)) + 2, Len(line))
  IN  IF value # <<>> /\ Head(value) = Space THEN Tail(value) ELSE value

\* Mutant of Accepts: a field without a value does not count.
AcceptsNonEmpty(f, value) ==
  value # <<>> /\ (f = "retry" => Head(value) \in Numerals)

\* A retry is kept if std::from_chars finds a number at its start.
Accepts(f, value) == f = "retry" => value # <<>> /\ Head(value) \in Numerals

\* Lines of data are joined, of the other fields the last counts.
With(event, f, value) ==
  [g \in DOMAIN event \cup {f} |->
     IF g # f THEN event[g]
     ELSE IF f = "data" /\ f \in DOMAIN event THEN event[f] \o <<NewLine>> \o value
     ELSE IF f = "retry" THEN <<Head(value)>>
     ELSE value]

\* What is no known field is ignored.
ParseLine(line, event) ==
  LET name == FieldOf(line)
  IN  IF /\ Len(name) = 1 /\ name[1] \in FieldSet
         /\ Accepts(name[1], ValueOf(line))
      THEN With(event, name[1], ValueOf(line)) ELSE event

\* The line that ends before position i, without the return that may end it.
LineBefore(text, i) ==
  LET start == CHOOSE s \in 0..(i - 1) :
                 /\ s = 0 \/ text[s] = NewLine
                 /\ \A j \in (s + 1)..(i - 1) : text[j] # NewLine
      end == IF start + 1 < i /\ text[i - 1] = Return THEN i - 2 ELSE i - 1
  IN  SubSeq(text, start + 1, end)

\* parse_sse_block line by line, as std::getline yields them; a last line
\* may lack its newline.  NoField is std::nullopt.
ParseLines(text, event) ==
  LET upto[i \in 0..Len(text)] ==
        IF i = 0 THEN event
        ELSE IF text[i] = NewLine THEN ParseLine(LineBefore(text, i), upto[i - 1])
        ELSE upto[i - 1]
  IN  upto[Len(text)]

ParseBlock(block) ==
  LET parsed == ParseLines(block, NoField)
  IN  IF block # <<>> /\ block[Len(block)] # NewLine
      THEN ParseLine(LineBefore(block, Len(block) + 1), parsed) ELSE parsed

EndsEvent(text) ==
  Len(text) >= 2 /\ text[Len(text) - 1] = NewLine /\ text[Len(text)] = NewLine
=============================================================================
