---------------------------- MODULE MCAuthority ----------------------------
(***************************************************************************)
(* Small instance of Authority for TLC: the zone "example" and its child   *)
(* zone "sub.example", with a few records each.                            *)
(***************************************************************************)
EXTENDS Authority

example == 1
sub == 2
www == 3
deep == 4
mail == 5

Apex == <<example>>
Child == <<sub, example>>

Rr(owner, rtype, data) ==
  [name |-> owner, type |-> rtype, target |-> <<>>, covers |-> 0, val |-> data]
Alias(owner, to) ==
  [name |-> owner, type |-> CNAME, target |-> to, covers |-> 0, val |-> 0]
Sig(owner, rtype) ==
  [name |-> owner, type |-> SIG, target |-> <<>>, covers |-> rtype, val |-> 0]

Www == <<www>> \o Apex
Mail == <<mail>> \o Apex
AnyApex == <<Star>> \o Apex
AnyDeep == <<Star, deep>> \o Apex
BelowDeep == <<www, deep>> \o Apex
BelowChild == <<www>> \o Child

Q(owner, rtype) ==
  [name |-> owner, type |-> rtype, standard |-> TRUE, question |-> TRUE,
   payload |-> 0, do |-> FALSE]
Signed(q) == [q EXCEPT !.payload = 1232, !.do = TRUE]

-----------------------------------------------------------------------------
\* A parent zone and its child.
TwoZones == <<Apex, Child>>
TwoLines ==
  [o \in {Apex, Child} |->
     IF o = Apex
     THEN {Rr(Apex, SOA, 1), Rr(Apex, NS, 0), Rr(Www, A, 1), Rr(Www, A, 2), Sig(Www, A),
           Alias(Mail, Www), Alias(AnyApex, Mail), Rr(AnyApex, A, 3), Rr(AnyDeep, A, 4), Rr(BelowChild, A, 5)}
     ELSE {Rr(Child, SOA, 2), Rr(BelowChild, A, 6)}]
TwoBounds == [o \in {Apex, Child} |-> IF o = Apex THEN 4 ELSE 2]
TwoAsked ==
  {Q(Apex, NS), Q(Apex, SOA), Q(Apex, AXFR), Q(Child, AXFR), Q(<<sub>>, A),
   Q(Www, A), Signed(Q(Www, A)), Q(Www, NS), Q(Mail, A), Q(Mail, CNAME),
   Q(BelowDeep, A), Q(BelowChild, A), Q(BelowChild, NS),
   [Q(Www, A) EXCEPT !.standard = FALSE], [Q(Www, A) EXCEPT !.question = FALSE]}

=============================================================================
