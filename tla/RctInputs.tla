----------------------------- MODULE RctInputs ------------------------------
(* State roots and statuses that are null, of the right size and not, one  *)
(* that reads like a status, blooms that are short and long, no log, one   *)
(* and two.                                                                *)
EXTENDS RctCodec

LogsOf(A, T) == {[Address |-> Bytes(a), Topics |-> List(t), Data |-> Bytes(<<5>>)] :
                    a \in A, t \in T}
Topics == {<< >>, <<Bytes(<<0, 1, 2>>)>>, <<Bytes(<<1, 2>>), Bytes(<<0, 1, 2, 3>>)>>}
SomeLogs == LogsOf({<<1>>, <<1, 2>>, <<2, 1, 0>>}, Topics)
Receipts ==
    {[TxType |-> Bytes(t), PostState |-> p, Status |-> s,
      CumulativeGasUsed |-> Bytes(c), Bloom |-> Bytes(b), Logs |-> List(l),
      LogRootCID |-> k] :
        t \in {<<0>>, <<1>>, <<2>>, <<3>>, << >>},
        p \in {Null} \cup {Bytes(x) : x \in {<< >>, <<1>>, <<7>>, <<0, 0, 1>>}},
        s \in {Null} \cup {Bytes(x) : x \in {<<0, 0>>, <<0, 1>>, <<1>>, <<0, 2>>}},
        c \in {<<1>>, <<0, 3>>, <<0, 3, 1>>},
        b \in {<<7>>, <<7, 7>>, <<7, 7, 7>>},
        l \in {<< >>} \cup {<<x>> : x \in LogsOf({<<1>>, <<1, 2>>}, Topics)},
        k \in {BadLink}}
    \cup {[TxType |-> Bytes(<<t>>), PostState |-> p[1], Status |-> p[2],
           CumulativeGasUsed |-> Bytes(<<0, 3>>), Bloom |-> Bytes(<<7, 7>>),
           Logs |-> List(<<x, y>>),
           LogRootCID |-> Link("log", [root |-> List(<<x, y>>)])] :
              t \in 0 .. 2, p \in {<<Null, Bytes(<<0, 1>>)>>, <<Null, Bytes(<<0, 0>>)>>,
                                   <<Bytes(<<0, 0, 1>>), Null>>},
              x, y \in SomeLogs}

LogItems == {Bytes(<< >>), Bytes(<<1, 2>>), Bytes(<<1, 2, 3>>), List(<< >>),
             List(<<Bytes(<<3, 4, 5>>)>>), List(<<Bytes(<<3>>)>>)}
LogBlocks == {List(<<a, t, d>>) : a, t, d \in LogItems}
             \cup {Bytes(<< >>), List(<<Bytes(<<1, 2>>), List(<< >>)>>)}

Odd == {Bytes(<< >>), Bytes(<<1>>), Bytes(<<0>>), Bytes(<<7, 7>>), Bytes(<<0, 0, 1>>),
        List(<< >>), List(<<Bytes(<<1>>)>>)}
RctBlocks ==
    {[first |-> f, l |-> <<p, c, b, List(l)>>] :
        f \in {0, 1, 2, 3, ListByte}, p \in Odd, c \in Odd, b \in Odd,
        l \in {<< >>, <<Bytes(<< >>)>>,
               <<List(<<Bytes(<<1, 2>>), List(<<Bytes(<<3, 4, 5>>)>>), Bytes(<<5>>)>>)>>,
               <<List(<<Bytes(<<1, 2>>), List(<<Bytes(<<3>>)>>), Bytes(<<5>>)>>)>>}}
    \cup {[first |-> ListByte, l |-> <<Bytes(<<1>>), Bytes(<<1>>)>>]}
=============================================================================
