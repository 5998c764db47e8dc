------------------------------ MODULE LogCodec ------------------------------
(***************************************************************************)
(* The codec of event logs (log/marshal.go, log/unmarshal.go).  The        *)
(* receipt codec packs and unpacks the logs of a receipt in the same way.  *)
(***************************************************************************)
EXTENDS RLP

packAddress(n) == AsBytes(n.Address, Address)
packTopics(n) == Elements(n.Topics, LAMBDA t : AsBytes(t, Hash))
packData(n) == AsBytes(n.Data, Blob)

EncodeLog(n) == Then(InOrder(<<packAddress(n), packTopics(n), packData(n)>>),
                     List)

(* Log.DecodeRLP *)
ReadLog(x) ==
    IF ~IsList(x) \/ Len(x.l) # 3 THEN Err
    ELSE InOrder(<<FromAddress(x.l[1]), FromList(x.l[2], FromHash),
                   FromBlob(x.l[3])>>)

DecodeLog(l) == [Address |-> l[1], Topics |-> l[2], Data |-> l[3]]

DecodeLogBytes(x) == Then(ReadLog(x), DecodeLog)

NormalLog(n) ==
    [Address |-> Bytes(Fit(n.Address.b, AddressLen)),
     Topics  |-> List([i \in DOMAIN n.Topics.l |->
                          Bytes(Fit(n.Topics.l[i].b, HashLen))]),
     Data    |-> n.Data]

WellFormedLog(n) ==
    /\ Sized(n.Address, AddressLen) /\ IsBytes(n.Data)
    /\ \A i \in DOMAIN n.Topics.l : Sized(n.Topics.l[i], HashLen)
=============================================================================
