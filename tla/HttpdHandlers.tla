---------------------------- MODULE HttpdHandlers ----------------------------
(***************************************************************************)
(* net/httpd-server.cpp: how the server finds the handler of a request,    *)
(* and how HttpdSubstitutionHandler fills its page. The two share nothing; *)
(* what carries the answer to the client is in HttpdServer.                *)
(***************************************************************************)
EXTENDS Naturals, Sequences, SequencesExt

-----------------------------------------------------------------------------
(***************************************************************************)
(* net/httpd-server.cpp, get_uri(): which handler answers a request.       *)
(*                                                                         *)
(* A path is the sequence of the names that its slashes separate: "/a/b"   *)
(* is <<"a", "b">>, "/" is <<"">>, and the empty string is <<>>.           *)
(***************************************************************************)

CONSTANTS
  Path,      \* what is asked for, and what prefix handlers are added for
  FilePath   \* what file handlers are added for

VARIABLES
  file_handlers,    \* paths with a HttpdFilenameHandler
  prefix_handlers,  \* prefixes with a HttpdPrefixHandler
  asked_for,        \* the request answered last; <<>> after a change of the handlers
  missing,          \* the file handler's open() returned NULL for it
  declined,         \* the prefix handlers whose open() returned NULL for it
  response            \* <<"file", path>>, <<"prefix", prefix, suffix>>, or <<>> for NULL

uriVars == <<file_handlers, prefix_handlers, asked_for, missing, declined, response>>

UriTypeOK ==
  /\ file_handlers \subseteq FilePath /\ prefix_handlers \subseteq Path
  /\ asked_for \in Path \cup {<<>>}
  /\ missing \in BOOLEAN /\ declined \subseteq prefix_handlers
  /\ response = <<>> \/ response[1] \in {"file", "prefix"}

UriInit ==
  /\ file_handlers = {} /\ prefix_handlers = {}
  /\ asked_for = <<>> /\ missing = FALSE /\ declined = {} /\ response = <<>>

NoRequest == asked_for' = <<>> /\ missing' = FALSE /\ declined' = {} /\ response' = <<>>

add_file_handler(p) ==
  /\ file_handlers' = file_handlers \cup {p}
  /\ NoRequest
  /\ UNCHANGED prefix_handlers

add_prefix_handler(p) ==
  /\ prefix_handlers' = prefix_handlers \cup {p}
  /\ NoRequest
  /\ UNCHANGED file_handlers

\* Mutant: the first prefix handler that is found has the last word.
Search_first(p, no) ==
  LET N == {n \in 0..Len(p) - 1 : SubSeq(p, 1, n) \in prefix_handlers}
      n == CHOOSE n \in N : \A k \in N : n >= k
  IN  IF N = {} \/ SubSeq(p, 1, n) \in no THEN <<>>
      ELSE <<"prefix", SubSeq(p, 1, n), SubSeq(p, n + 1, Len(p))>>

\* The loop over the prefixes of p, each without its last slash and what follows
\* it.  The handlers in no return NULL.
Search(p, no) ==
  LET f[n \in 0..Len(p)] ==
        LET prefix == SubSeq(p, 1, n - 1)
        IN  IF n = 0 THEN <<>>   \* no slash is left
            ELSE IF prefix \in prefix_handlers \ no
                   THEN <<"prefix", prefix, SubSeq(p, n, Len(p))>>
                   ELSE f[n - 1]
  IN  f[Len(p)]

\* A file handler whose file cannot be opened returns NULL, and that is the
\* answer: no prefix is looked for.
get_uri(p, no) ==
  /\ asked_for' = p /\ declined' = no
  /\ \/ p \in file_handlers /\ response' = <<"file", p>> /\ missing' = FALSE
     \/ p \in file_handlers /\ response' = <<>> /\ missing' = TRUE
     \/ p \notin file_handlers /\ response' = Search(p, no) /\ missing' = FALSE
  /\ UNCHANGED <<file_handlers, prefix_handlers>>

UriNext ==
  \/ \E p \in FilePath : add_file_handler(p)
  \/ \E p \in Path : add_prefix_handler(p)
  \/ \E p \in Path \ {<<>>}, no \in SUBSET prefix_handlers : get_uri(p, no)

UriSpec == UriInit /\ [][UriNext]_uriVars

-----------------------------------------------------------------------------
(* Properties.                                                              *)

Answers(q) == q \in prefix_handlers \ declined /\ IsStrictPrefix(q, asked_for)

\* A prefix handler is given the rest of the path, and only when the file has no
\* handler; it is the longest that answers, and nobody answers only when
\* nobody would.  The exception is a file handler that does not find its file:
\* it hides the prefix handlers, which might have answered.
LongestPrefixAnswers ==
  /\ response # <<>> /\ response[1] = "prefix" =>
       /\ asked_for \notin file_handlers
       /\ response[2] \o response[3] = asked_for
       /\ Answers(response[2])
       /\ \A q \in Path : Answers(q) => Len(q) <= Len(response[2])
  /\ response = <<>> /\ ~missing => asked_for \notin file_handlers /\ \A q \in Path : ~Answers(q)
  /\ missing => response = <<>> /\ asked_for \in file_handlers

\* include/httpd-server.h: a request for /aaa/bb/c searches for the handlers of
\* /aaa/bb, then of /aaa, "and finally" of /.  So a handler of / that does not
\* decline answers whatever nobody else answers (but for a file handler that
\* does not find its file).
RootIsSearchedLast ==
  asked_for # <<>> /\ response = <<>> /\ ~missing => <<"">> \notin prefix_handlers \ declined

-----------------------------------------------------------------------------
(***************************************************************************)
(* net/httpd-server.cpp, HttpdSubstitutionHandler::open(): a page in which *)
(* @@name@@ is replaced by the value of the name, when it has one.         *)
(*                                                                         *)
(* A page is a sequence of characters, made of pieces: "x" and "space"     *)
(* stand for text, "k" is a name with a value, <<"v">>, and "u" is a name  *)
(* without one.                                                            *)
(***************************************************************************)

CONSTANT MaxPieces   \* bound on the pieces of a page

At2 == <<"@", "@">>
Piece == {<<"x">>, <<"space">>, <<"@">>, At2 \o <<"k">> \o At2, At2 \o <<"u">> \o At2}

VARIABLES
  pieces,        \* what the page was written as
  old_payload,
  payload,       \* what has been put together
  cur,           \* how many characters of old_payload have been done
  done

pageVars == <<pieces, old_payload, payload, cur, done>>

PageTypeOK ==
  /\ pieces \in BoundedSeq(Piece, MaxPieces)
  /\ cur \in 0..Len(old_payload)
  /\ done \in BOOLEAN

PageInit ==
  /\ pieces \in BoundedSeq(Piece, MaxPieces)
  /\ old_payload = FlattenSeq(pieces)
  /\ payload = <<>> /\ cur = 0 /\ done = FALSE

get_value_of(name) == IF name = <<"k">> THEN <<"v">> ELSE <<>>

\* The positions, from 0, at which "@@" stands.
Marks == {i \in 0..Len(old_payload) - 2 : SubSeq(old_payload, i + 1, i + 2) = At2}

\* What stands from position i up to j.
substr(i, j) == SubSeq(old_payload, i + 1, j)

\* The marks that end a name with a value which begins after the mark at i: no
\* white space comes before them.
Ends(i) == {x \in Marks : x >= i + 2 /\ ~Contains(substr(i + 2, x), "space") /\ get_value_of(substr(i + 2, x)) # <<>>}

\* Mutant: the mark after a replaced name is left in.
Substitute_leaves ==
  LET M == {i \in Marks : i >= cur}
      next == CHOOSE i \in M : \A j \in M : i <= j
      x == CHOOSE x \in Ends(next) : \A y \in Ends(next) : x <= y
  IN  /\ M # {}
      /\ IF Ends(next) # {}
           THEN /\ payload' = payload \o substr(cur, next) \o get_value_of(substr(next + 2, x))
                /\ cur' = x
           ELSE /\ payload' = payload \o substr(cur, next) \o At2
                /\ cur' = next + 2
      /\ UNCHANGED <<pieces, old_payload, done>>

\* One turn of the loop: the next mark, and the first end of its name.
Substitute ==
  LET M == {i \in Marks : i >= cur}
      next == CHOOSE i \in M : \A j \in M : i <= j
      x == CHOOSE x \in Ends(next) : \A y \in Ends(next) : x <= y
  IN  /\ M # {}
      /\ IF Ends(next) # {}
           THEN /\ payload' = payload \o substr(cur, next) \o get_value_of(substr(next + 2, x))
                /\ cur' = x + 2
           ELSE /\ payload' = payload \o substr(cur, next) \o At2
                /\ cur' = next + 2
      /\ UNCHANGED <<pieces, old_payload, done>>

Finish ==
  /\ ~done
  /\ \A i \in Marks : i < cur
  /\ payload' = payload \o substr(cur, Len(old_payload))
  /\ done' = TRUE /\ cur' = Len(old_payload)
  /\ UNCHANGED <<pieces, old_payload>>

PageNext == Substitute \/ Finish

PageSpec == PageInit /\ [][PageNext]_pageVars

-----------------------------------------------------------------------------
(* Properties.                                                              *)

\* A page without stray "@"s comes out as its pieces, with the value in place of
\* every name that has one, also between placeholders that are left as they are.
\* (A stray "@" before a placeholder hides it, and so do text and marks that
\* happen to spell one.)
PageIsSubstituted ==
  done /\ ~Contains(pieces, <<"@">>) =>
    payload = FlattenSeq([i \in DOMAIN pieces |->
                IF pieces[i] = At2 \o <<"k">> \o At2 THEN <<"v">> ELSE pieces[i]])

=============================================================================
