----------------------------- MODULE MCDisplay -----------------------------
(***************************************************************************)
(* Display for TLC: with four bytes to a label, lists of buttons that have *)
(* labels cut at a blank, inside characters of two, three and four bytes,  *)
(* or not at all, and more than two complete buttons.  The settings of     *)
(* Jellyfin ask for everybody, for one user by identifier or by name, or   *)
(* for both; the poll intervals are out of range.                          *)
(***************************************************************************)
EXTENDS Display

CONSTANTS U1, U2  \* the two users

Button(t) == [label |-> Label(t), url |-> TRUE]

Lines ==
  {<<>>,
   <<Button(<<"blank">>), Button(<<"blank", "one", "two", "blank", "one">>),
     [label |-> Label(<<"one">>), url |-> FALSE],
     Button(<<"one", "four", "one">>), Button(<<"two">>)>>,
   <<Button(<<"two", "one", "two">>), Button(<<"one", "one", "bad", "one">>)>>}

Form(user, name, clear, poll, key) ==
  [user |-> user, name |-> name, clear |-> clear, poll |-> poll, key |-> key]

Filled ==
  {Form(Nobody, Nobody, FALSE, 14, TRUE), Form(Nobody, Nobody, TRUE, 14, TRUE),
   Form(U1, Nobody, TRUE, 14, TRUE), Form(Nobody, U2, TRUE, 14, TRUE),
   Form(U1, U2, FALSE, 14, TRUE),
   Form(Nobody, U2, FALSE, 3601, FALSE)}
=============================================================================
