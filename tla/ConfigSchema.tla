---------------------------- MODULE ConfigSchema ----------------------------
(***************************************************************************)
(* What a configuration may hold (internal/config/config.go), what a       *)
(* request changes in it (applyConfigRequest and switchMode of             *)
(* internal/web/server.go), and what is left of it on the disk.            *)
(*                                                                         *)
(* A text is a sequence of characters, told apart by what cleanButtons     *)
(* makes of them: a blank, and characters of one to four bytes.  "bad" is  *)
(* U+FFFD, which the JSON encoder writes for every byte that is no part of *)
(* a character.  A label is a text with the first bytes, torn of them, of  *)
(* a character that was cut.                                               *)
(***************************************************************************)
EXTENDS Integers, FiniteSetsExt, SequencesExt

CONSTANTS
  LabelMax,  \* bytes in a button's label
  Users,     \* Jellyfin's users; an identifier and a name of each
  Nobody,    \* no user identifier or name
  Absent     \* a part that a request does not have

ASSUME SchemaAssumption == LabelMax \in Nat \ {0} /\ Nobody \notin Users

RuneBytes == [blank |-> 1, one |-> 1, two |-> 2, bad |-> 3, four |-> 4]
Runes     == DOMAIN RuneBytes

\* Bits of config.Mode.
ModeJellyfin == 1
ModeCustom   == 2
ModeDual     == ModeJellyfin + ModeCustom

Has(mode, bit) == (mode \div bit) % 2 = 1

-----------------------------------------------------------------------------
(* Labels.                                                                 *)

\* len() of a text: its bytes, each by its character and its place in there.
ByteSet(t) == {p \in (DOMAIN t) \X (1 .. 4) : p[2] <= RuneBytes[t[p[1]]]}
Width(t)   == Cardinality(ByteSet(t))
Bytes(l)   == Width(l.text) + l.torn

Labels  == [text : Seq(Runes), torn : Nat]
Buttons == [label : Labels, url : BOOLEAN]

\* A text the JSON decoder has read.
Label(t) == [text |-> t, torn |-> 0]

\* The label as the JSON encoder writes it, to Discord, the page and the disk.
Shown(l) == l.text \o [i \in 1 .. l.torn |-> "bad"]

\* strings.TrimSpace.
Trimmed(l) ==
  LET marks == {i \in DOMAIN l.text : l.text[i] # "blank"}
      last  == IF l.torn > 0 THEN Len(l.text) ELSE Max(marks)
  IN  IF marks = {} THEN [l EXCEPT !.text = <<>>]
      ELSE [l EXCEPT !.text = SubSeq(l.text, Min(marks), last)]

\* How many characters of t fit into LabelMax bytes.
Fitting(t) == Max({k \in 0 .. Len(t) : Width(SubSeq(t, 1, k)) <= LabelMax})

\* Mutant of Cut: the character at the limit is kept whole.
CutWhole(l) ==
  IF Bytes(l) <= LabelMax THEN l
  ELSE Label(SubSeq(l.text, 1, Fitting(l.text) + 1))

\* label[:32], for a label that is longer.
Cut(l) ==
  IF Bytes(l) <= LabelMax THEN l
  ELSE LET whole == SubSeq(l.text, 1, Fitting(l.text))
       IN  [text |-> whole, torn |-> LabelMax - Width(whole)]

\* A button is its label, and whether it has a URL.
Complete(b) == Bytes(Trimmed(b.label)) > 0 /\ b.url

Cleaned(b) == [label |-> Cut(Trimmed(b.label)), url |-> b.url]

\* cleanButtons: the first two that are complete.
CleanButtons(bs) ==
  LET all  == {i \in DOMAIN bs : Complete(bs[i])}
      rest == all \ {Min(all)}
  IN  IF all = {} THEN <<>>
      ELSE IF rest = {} THEN <<Cleaned(bs[Min(all)])>>
      ELSE <<Cleaned(bs[Min(all)]), Cleaned(bs[Min(rest)])>>

-----------------------------------------------------------------------------
(* Configurations: mode; buttons; key, Jellyfin's URL and API key are set; *)
(* user and name, whose sessions are wanted; clear, ClearOnPause; poll.    *)

Interval(n) == IF n < 15 THEN 30 ELSE IF n > 3600 THEN 3600 ELSE n

Normalize(c) ==
  [c EXCEPT !.mode    = IF @ = 0 THEN ModeDual ELSE @,
            !.poll    = Interval(@),
            !.buttons = CleanButtons(@)]

\* Default.
Default ==
  [mode |-> ModeDual, buttons |-> <<>>, key |-> FALSE, user |-> Nobody,
   name |-> Nobody, clear |-> FALSE, poll |-> 30]

\* Mutant of Given: a part the request does not have is emptied.
GivenEmpty(part, old) == IF part = Absent THEN <<>> ELSE part

\* A pointer of the request, nil when absent.
Given(part, old) == IF part = Absent THEN old ELSE part

\* applyConfigRequest.  The page's form for Jellyfin sends all of its fields;
\* none of its forms sends a mode.
ApplyRequest(c, r) ==
  LET saved == [c EXCEPT !.buttons = Given(r.buttons, @)]
  IN  IF r.jellyfin = Absent THEN saved
      ELSE [saved EXCEPT !.user  = r.jellyfin.user,
                         !.name  = r.jellyfin.name,
                         !.clear = r.jellyfin.clear,
                         !.poll  = r.jellyfin.poll,
                         !.key   = r.jellyfin.key]

\* The mode a switchMode request names.
NamedMode(s) == IF s = "custom" THEN ModeCustom ELSE ModeDual

\* A label that was saved and is decoded again.
Reread(l) == Label(Shown(l))

\* load: the file decoded into an empty Config, then Normalize.
Loaded(c) ==
  Normalize([c EXCEPT !.buttons =
    [i \in DOMAIN c.buttons |-> [label |-> Reread(c.buttons[i].label),
                                 url |-> c.buttons[i].url]]])
=============================================================================
