------------------------------ MODULE Matcher ------------------------------
(***************************************************************************)
(* The matchers of server/matcher.hpp: make_matcher picks one by the form  *)
(* of the pattern, path_params_matcher captures the parameters of a route, *)
(* regex_matcher leaves the work to std::regex_match.                      *)
(*                                                                         *)
(* Paths and patterns are sequences of tokens: "/", ":", a word, and in    *)
(* the pattern of a regular expression ".*".                               *)
(***************************************************************************)
EXTENDS Naturals, Sequences

\* The positions from the given one on at which a token, or the marker "/:",
\* stands; the first of them, or the end.
From(s, i) == i..Len(s)
First(S, end) == IF S = {} THEN end ELSE CHOOSE i \in S : \A j \in S : i <= j
Find(s, token, i) == First({j \in From(s, i) : s[j] = token}, Len(s) + 1)
IsMarker(s, j) == j < Len(s) /\ s[j] = "/" /\ s[j + 1] = ":"
FindMarker(s, i) == First({j \in From(s, i) : IsMarker(s, j)}, Len(s) + 1)

\* The constructor's loop from position pos, one past the last parameter:
\* a static fragment up to and with the "/" of the next marker, and a name
\* up to the next "/"; at last what follows the last name and its "/".
Parse(pattern) ==
  LET rest[pos \in 1..(Len(pattern) + 2)] ==
        LET marker == FindMarker(pattern, IF pos = 1 THEN 1 ELSE pos - 1)
            sep    == Find(pattern, "/", marker + 2)
        IN  IF marker > Len(pattern)
            THEN [names |-> <<>>,
                  fragments |-> IF pos > Len(pattern) THEN <<>>
                                ELSE <<SubSeq(pattern, pos, Len(pattern))>>]
            ELSE [names |-> <<SubSeq(pattern, marker + 2, sep - 1)>>
                              \o rest[sep + 1].names,
                  fragments |-> <<SubSeq(pattern, pos, marker)>>
                                  \o rest[sep + 1].fragments]
  IN  rest[1]

\* The loop reads the constructor's parameter after it has been moved into
\* the base class, which leaves it empty.
MovedFrom(pattern) == <<>>

\* path_params_matcher::match: from fragment i on, at the given position of
\* the path.  The comparison is with all that is left of the path, not with
\* as much of it as the fragment is long.
MatchParams(parsed, path) ==
  LET n == Len(parsed.fragments)
      from[i \in 1..(n + 1)] == [at \in 1..(Len(path) + 2) |->
        IF i > n THEN at > Len(path)
        ELSE LET next == at + Len(parsed.fragments[i])
             IN  /\ next <= Len(path) + 1
                 /\ SubSeq(path, at, Len(path)) = parsed.fragments[i]
                 /\ from[i + 1][IF i > Len(parsed.names) THEN next
                                ELSE Find(path, "/", next) + 1]]
  IN  from[1][1]

\* std::regex_match for patterns with at most one wildcard.
RegexMatch(pattern, path) ==
  LET star == Find(pattern, ".*", 1)
      head == SubSeq(pattern, 1, star - 1)
      tail == SubSeq(pattern, star + 1, Len(pattern))
  IN  IF star > Len(pattern) THEN pattern = path
      ELSE /\ Len(head) + Len(tail) <= Len(path)
           /\ SubSeq(path, 1, Len(head)) = head
           /\ SubSeq(path, Len(path) - Len(tail) + 1, Len(path)) = tail

\* make_matcher, and the matcher it makes.
HasParams(pattern) == FindMarker(pattern, 1) <= Len(pattern)
Matches(pattern, path) ==
  IF HasParams(pattern) THEN MatchParams(Parse(MovedFrom(pattern)), path)
  ELSE RegexMatch(pattern, path)

-----------------------------------------------------------------------------
\* What the comment at matcher.hpp:24-40 promises for a pattern with
\* parameters: a parameter stands for one path segment, and the rest of the
\* pattern for itself.  Words are single tokens here.
Conforms(pattern, path) ==
  LET from[i \in 1..(Len(pattern) + 2)] == [j \in 1..(Len(path) + 2) |->
        IF i > Len(pattern) THEN i = Len(pattern) + 1 /\ j = Len(path) + 1
        ELSE /\ j <= Len(path)
             /\ IF IsMarker(pattern, i) /\ i + 2 <= Len(pattern)
                THEN /\ path[j] = "/" /\ j < Len(path) /\ path[j + 1] # "/"
                     /\ from[i + 3][j + 2]
                ELSE path[j] = pattern[i] /\ from[i + 1][j + 1]]
  IN  from[1][1]
=============================================================================
