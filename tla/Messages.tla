------------------------------ MODULE Messages ------------------------------
(***************************************************************************)
(* The messages of the gRPC services, as sets of records: model/v2,        *)
(* service/v2, feed/v2 and the deprecated service/v1.                      *)
(*                                                                         *)
(* A key stands for its bytes and a value for an Any.  Nil is a field that *)
(* is not set: the generated getters return the zero value for it.  A      *)
(* message on the wire is taken to arrive as it was sent.                  *)
(***************************************************************************)
EXTENDS Naturals, Sequences

CONSTANTS
    Keys, Values,
    Nil,
    MaxUint64 \* the largest block number a request can hold

ASSUME MessagesAssumption == Nil \notin Values /\ MaxUint64 \in Nat

BlockNumber == 0..MaxUint64

-----------------------------------------------------------------------------
(* model/v2 *)

ResponseCode == {"UNSPECIFIED", "FOUND", "NOT_FOUND", "NOT_FOUND_FINALIZE"}

Entry == [key : Keys, value : Values \cup {Nil}]

QueriedEntry == [code : ResponseCode, entry : Entry]

QueriedEntries == Seq(QueriedEntry)

\* Entries by key, a part of a batch: a key that is named twice keeps its last value.
Part == UNION {[D -> Values] : D \in SUBSET Keys}

SinkEntries == [entries : Part, if_not_exist : BOOLEAN]

-----------------------------------------------------------------------------
(* feed/v2 *)

\* A request without entries is the one whose batch is empty.
SetRequest == [entries : SinkEntries]

SetReadyRequest == [ready : BOOLEAN]

-----------------------------------------------------------------------------
(* service/v2; block_hash, which no handler reads, is left out *)

GetRequest == [block_number : BlockNumber, keys : Seq(Keys)]

GetResponse == [block_reached : BOOLEAN, entries : {Nil} \cup QueriedEntries]

\* What both read methods answer when the store is not ready or the block is
\* above the head.
NotReached == [block_reached |-> FALSE, entries |-> Nil]

-----------------------------------------------------------------------------
(* service/v1 *)

LegacyCode == ResponseCode \cup {"NOT_FOUND_BLOCK_NOT_REACHED"}

LegacyGetRequest == [block_number : BlockNumber, omit_deleted : BOOLEAN, key : Keys]

LegacyGetAllRequest == [block_number : BlockNumber, omit_deleted : BOOLEAN, keys : Seq(Keys)]

LegacyGetResponse == [block_reached : BOOLEAN, code : LegacyCode, value : Values \cup {Nil}]

ResponseEntry == [key : Keys, response : LegacyGetResponse]

LegacyGetAllResponse == [block_reached : BOOLEAN, entries : Seq(ResponseEntry)]

\* Not reached: the other fields keep their zero values.
LegacyNotReached == [block_reached |-> FALSE, code |-> "UNSPECIFIED", value |-> Nil]

LegacyAllNotReached == [block_reached |-> FALSE, entries |-> <<>>]
=============================================================================
