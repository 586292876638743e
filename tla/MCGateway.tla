----------------------------- MODULE MCGateway -----------------------------
(* Payloads and timestamps for Gateway.  The clock begins at 16 ns, that is  *)
(* 4 seconds; integers over 8 are nanoseconds.                               *)
EXTENDS Gateway, TLC

None == [kind |-> "none", n |-> 0]
Bad == [kind |-> "bad", n |-> 0]
Stamp(kind, n) == [kind |-> kind, n |-> n]
Item(stamp) == [series |-> "s1", stamp |-> stamp]

(* Around the bounds of each kind: of seconds and of nanoseconds near the    *)
(* clock, and of what is taken for seconds.                                  *)
MCStamps ==
    {Stamp("int", n) : n \in {2, 3, 5, 6, 8, 9, 11, 12, 21, 22}}
    \cup {Stamp("float", n) : n \in {2, 3, 5, 6}}
    \cup {Stamp("iso", n) : n \in {8, 9, 11, 12, 16, 21, 22}}
    \cup {Stamp("digits", n) : n \in {2, 4, 8, 9, 24}}
(* Digits that are dates: about the clock's, in 1970, and beyond 64 bits. *)
MCDates == (2 :> 16) @@ (8 :> 3) @@ (9 :> 21) @@ (24 :> 41)
MCBatches ==
    {<<Item(None), Item(None)>>, <<Item(Stamp("iso", 17))>>, <<Item(None), Item(Bad)>>}
MCZmqBatches == {<<Item(None), Item(None)>>, <<Item(Stamp("int", 17)), Item(Bad), Item(None)>>}

MCSymmetry == Permutations(Reqs) \cup Permutations(Addrs)
=============================================================================
