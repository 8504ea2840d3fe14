------------------------------ MODULE MCCore ------------------------------
(* Traces of a few instructions over two addresses and three registers.    *)
EXTENDS OooCore

I(src, dst, ld, st) == [branch |-> FALSE, src |-> src, dst |-> dst, ld |-> ld, st |-> st]
Br(src) == [branch |-> TRUE, src |-> src, dst |-> {}, ld |-> <<>>, st |-> <<>>]
Load(a, r) == I(<<>>, {r}, <<a>>, <<>>)
LoadAt(b, a, r) == I(<<b>>, {r}, <<a>>, <<>>)
Store(r, a) == I(<<r>>, {}, <<>>, <<a>>)
Op(src, r) == I(src, {r}, <<>>, <<>>)
Rmw(r, a) == I(<<r>>, {r}, <<a>>, <<a>>)

MCTraces ==
  { \* forwarding, a chain of registers and a branch
    <<Store(1, "a"), Load("a", 1), Op(<<1, 1>>, 2), Br(<<2>>)>>,
    \* two stores, the younger one ready first, and a load of the younger one
    <<Load("b", 1), Store(1, "a"), Store(2, "a"), Load("a", 1)>>,
    \* read-modify-write of one address, one after the other
    <<Rmw(1, "a"), Rmw(2, "a"), Load("b", 1)>>,
    \* a younger store enters SQ before an older load fits in LQ
    <<Load("b", 1), LoadAt(1, "a", 2), Load("b", 3), Store(3, "a")>>,
    \* a younger writer of a register finishes before an older one
    <<Load("a", 1), Op(<<>>, 1), Op(<<1>>, 2), Store(2, "b"), Br(<<1>>)>>,
    \* one instruction with two stores, one with two loads
    <<I(<<1>>, {}, <<>>, <<"a", "b">>), I(<<>>, {1, 2}, <<"a", "b">>, <<>>),
      Store(2, "b")>> }

\* The address of a load and the data of a store behind it are late; loads of the
\* stored address behind them are not.
LoadsAhead ==
  { <<Op(<<>>, 1), LoadAt(1, "b", 2), Store(2, "a"), Load("a", 3), Load("a", 3)>> }

\* A load of "b" waits for the store before it, and a load of "a" in the same
\* instruction for an older instruction that also stores to "b".
TwoStores ==
  { <<I(<<1>>, {}, <<>>, <<"a", "b">>), Store(2, "b"), I(<<>>, {1, 2}, <<"a", "b">>, <<>>)>> }

\* The theorems about forwarding speak of the first set of traces, not of the last.
ASSUME TracesAssumption == (\A t \in MCTraces : Regular(t)) /\ \A t \in TwoStores : ~Regular(t)
===========================================================================
