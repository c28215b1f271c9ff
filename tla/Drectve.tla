------------------------------- MODULE Drectve -------------------------------
(***************************************************************************)
(* The parser of linker directives, which the ELF and the COFF reader each *)
(* have a copy of (elflwlv.c, cofflwlv.c): it goes through the contents of *)
(* a section .drectve and calls the client for what it finds there.        *)
(*                                                                         *)
(* A text is a sequence of characters, a word counting as one; tabs and    *)
(* equal signs are taken for spaces.  A position counts from 0.  The parser *)
(* has a position and how many characters it believes are left; as soon as *)
(* it decides something by a character behind the text, what it does is    *)
(* "wild" and it is not followed further.                                  *)
(***************************************************************************)
EXTENDS Naturals, Sequences
LOCAL INSTANCE SequencesExt
LOCAL INSTANCE FiniteSetsExt

\* Faulty: a comma is part of a word.
WordEndsAtSpace == {" "}

WordEnds == {",", " "}

\* Faulty: a list has one entry.
ContinuesNever(c) == FALSE

\* The loop of ParseDefLibEntry goes on behind a comma.
Continues(c) == c = ","

\* What EatWhite stops at.
Black(t) == ToSet(t) \ {",", " "}

\* strncspn: how many of the next `len' characters come before one of `stops';
\* more than the text has (Wild) if characters behind it are looked at.
Span(t, p, len, stops) ==
  LET hits == {l \in 0 .. len - 1 : p + l < Len(t) /\ t[p + l + 1] \in stops}
  IN  IF hits # {} THEN Min(hits) ELSE IF p + len <= Len(t) THEN len ELSE Len(t) + 1

Wild(t, l) == l = Len(t) + 1

Heard(calls, wild, stopped) == [calls |-> calls, wild |-> wild, stopped |-> stopped]

\* CoffParseDrectve, ElfParseDrectve; the client always answers ORL_OKAY.  A
\* command that is not followed by a colon takes the counter below 0.  An entry
\* of a list takes no account of the comma in front of it, and is followed by a
\* look at the next character, whether there is one or not.
Parsed(t) ==
  LET n == Len(t)
      After(call, rest) == Heard(<<call>> \o rest.calls, rest.wild, FALSE)
      Nothing == Heard(<<>>, FALSE, FALSE)
      Lost    == Heard(<<>>, TRUE, FALSE)
      Parse[mode \in {"white", "directive", "defaultlib", "entry"}, p \in 0 .. n, len \in 0 .. n] ==
        CASE mode = "white" ->     \* EatWhite
               LET w == Span(t, p, len, Black(t))
               IN  IF Wild(t, w) THEN Lost ELSE Parse["directive", p + w, len - w]
          [] mode = "directive" ->
               LET l == Span(t, p + 1, len - 1, {":"})
                   cmd == t[p + 2]
                   from == p + l + 2
                   left == len - l - 2
                   w == Span(t, from, left, WordEnds)
               IN  IF len = 0 THEN Nothing
                   ELSE IF p = n THEN Lost
                   ELSE IF t[p + 1] # "-" THEN Nothing
                   ELSE IF Wild(t, l) \/ l = len - 1 THEN Lost
                   ELSE IF cmd = "export"
                   THEN IF Wild(t, w) THEN Lost
                        ELSE After(<<cmd, SubSeq(t, from + 1, from + w)>>,
                                   Parse["white", from + w, left - w])
                   ELSE Parse[IF cmd \in {"defaultlib", "entry"} THEN cmd ELSE "white", from, left]
          [] OTHER ->              \* ParseDefLibEntry
               LET w == Span(t, p, len, WordEnds)
                   end == p + w
               IN  IF Wild(t, w) THEN Lost
                   ELSE After(<<mode, SubSeq(t, p + 1, end)>>,
                              IF end = n THEN Lost
                              ELSE IF Continues(t[end + 1]) THEN Parse[mode, end + 1, len - w]
                              ELSE Parse["white", end, len - w])
  IN  Parse["white", 0, n]

\* What the client may have heard, which may stop the parser at any call.
Hearings(t) ==
  LET all == Parsed(t)
  IN  {all} \cup {Heard(SubSeq(all.calls, 1, k), FALSE, TRUE) : k \in DOMAIN all.calls}

-----------------------------------------------------------------------------
(* What a text says.  It is written from directives d with a command, a    *)
(* colon or none, and words, and perhaps a space at the end.               *)

Written(d) ==
  <<"-", d.cmd>> \o (IF d.colon THEN <<":">> ELSE <<>>) \o
    FlattenSeq([i \in DOMAIN d.words |-> IF i = 1 THEN <<d.words[i]>> ELSE <<",", d.words[i]>>])

TextOf(note) ==
  FlattenSeq([i \in DOMAIN note.ds |-> (IF i = 1 THEN <<>> ELSE <<" ">>) \o Written(note.ds[i])])
    \o IF note.space THEN <<" ">> ELSE <<>>

IsList(d) == d.cmd \in {"defaultlib", "entry"}

\* The calls for a directive: of the words of an export only the first is heeded.
Says(d) ==
  LET words == IF d.words = <<>> THEN <<<<>>>> ELSE [i \in DOMAIN d.words |-> <<d.words[i]>>]
  IN  CASE IsList(d)        -> [i \in DOMAIN words |-> <<d.cmd, words[i]>>]
        [] d.cmd = "export" -> <<<<d.cmd, words[1]>>>>
        [] OTHER            -> <<>>

\* Directives behind which nothing is heard: those that ORL does not know, with
\* a word, and exports with more than one.
Ends(d) == ~IsList(d) /\ Len(d.words) > IF d.cmd = "export" THEN 1 ELSE 0

\* The directives that count: up to the first that Ends, without the first that
\* has no colon.
Heeded(ds) ==
  LET ends == {i \in DOMAIN ds : Ends(ds[i])}
      bare == {i \in DOMAIN ds : ~ds[i].colon}
  IN  SubSeq(ds, 1, Min({Len(ds)} \cup ends \cup {i - 1 : i \in bare}))

\* The text is one that may lead the parser astray: in front of what Ends it,
\* a directive has no colon or a list has a comma, or a list is at its end.
MayStray(note) ==
  \/ \E i \in DOMAIN note.ds :
       /\ \A j \in 1 .. i - 1 : ~Ends(note.ds[j])
       /\ ~note.ds[i].colon \/ (IsList(note.ds[i]) /\ Len(note.ds[i].words) > 1)
  \/ ~note.space /\ note.ds # <<>> /\ IsList(note.ds[Len(note.ds)])

\* The client hears what the directives say, in their order, and nothing else;
\* all of it unless it stops the parser or that goes astray, and behind a
\* directive without a colon anything.
HeardRight(note, heard) ==
  LET said == FlattenSeq([i \in DOMAIN Heeded(note.ds) |-> Says(note.ds[i])])
      bare == \E i \in DOMAIN note.ds : ~note.ds[i].colon
  IN  /\ heard.wild => MayStray(note)
      /\ IsPrefix(heard.calls, said) \/ (bare /\ IsPrefix(said, heard.calls))
      /\ ~heard.wild /\ ~heard.stopped => Len(heard.calls) >= Len(said)

=============================================================================
