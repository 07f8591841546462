-------------------------- MODULE MCRealtimeBroker --------------------------
(* Connections of two users on a first process, and of one on a second. *)
EXTENDS RealtimeBroker, TLC

CONSTANTS n1, n2, c1, c2, c3, posts, notes, alice, bob, e1, e2

MCNodeOf == [c \in Conns |-> IF c = c3 THEN n2 ELSE n1]
MCSubjectOf == [c \in Conns |-> IF c = c2 THEN bob ELSE alice]
MCCollOf == [e \in Events |-> posts]
MCOwnerOf == [e \in Events |-> IF e = e1 THEN alice ELSE Everyone]
=============================================================================
