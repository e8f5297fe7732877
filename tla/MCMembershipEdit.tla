-------------------------- MODULE MCMembershipEdit --------------------------
(***************************************************************************)
(* MembershipEdit on two Incidents a and b that may be linked, from either *)
(* end, an Incident x that does not exist, and a type t that a may have.   *)
(***************************************************************************)
EXTENDS MembershipEdit, TLC

MCKeys == {<<"a", "b">>, <<"b", "a">>, <<"a", "t">>, <<"a", "x">>, <<"x", "a">>}
MCUnknown == {<<"a", "x">>, <<"x", "a">>}
MCBodies ==
  [keys : {<< <<"a", "b">>, <<"b", "a">> >>, << <<"b", "a">>, <<"a", "b">> >>,
           << <<"a", "t">> >>},
   attach : BOOLEAN]
  \cup {[keys |-> << <<"a", "x">>, <<"x", "a">> >>, attach |-> TRUE]}

MCInitMember == {{}, {<<"a", "b">>, <<"b", "a">>, <<"a", "t">>}}
=============================================================================
