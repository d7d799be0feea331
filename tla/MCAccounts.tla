----------------------------- MODULE MCAccounts -----------------------------
(***************************************************************************)
(* One session against the looper, two users, two passwords.               *)
(***************************************************************************)
EXTENDS Accounts

CONSTANT p1

MCSettings == {
    [password |-> Blank, flags |-> {"enabled", "can change"}],
    [password |-> p1, flags |-> {"enabled", "can change", "must change"}]}
=============================================================================
