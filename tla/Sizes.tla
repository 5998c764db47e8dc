------------------------------- MODULE Sizes -------------------------------
(* The sizes of the fixed-size values of go-ethereum, in bytes. *)
EXTENDS Naturals

CONSTANTS UintLen,     \* 8, a uint64 and a block nonce
          HashLen,     \* 32, common.Hash
          AddressLen,  \* 20, common.Address
          BloomLen     \* 256, types.Bloom

ASSUME SizeAssumption ==
    /\ UintLen \in Nat \ {0}
    /\ HashLen \in Nat /\ HashLen > 1   \* longer than a status
    /\ AddressLen \in Nat \ {0} /\ BloomLen \in Nat \ {0}
=============================================================================
