----------------------------- MODULE MCDictTables -----------------------------
(***************************************************************************)
(* A dictionary whose offset table has no cell for code 3 and a first      *)
(* block that needs it.  The code is not the last sequence's: there the    *)
(* encoder's index leaves its table and the call panics (HasInitState).    *)
(***************************************************************************)
EXTENDS RoundTrips

Narrowed ==
  [of |-> << << 10, 11, 11 >>, 5 >>, ml |-> << << 32, 32 >>, 6 >>, ll |-> << << 32, 32 >>, 6 >>]
Sequence(ov) == [ll |-> 1, ml |-> 4, ov |-> ov]

MCSequenceJobs ==
  { [kind |-> "sequences", dict |-> << d >>,
     seqs |-> << Sequence(a), Sequence(b), Sequence(c), Sequence(1) >>] :
      d \in {Narrowed, Trained}, a, b, c \in {1, 2, 9} }
=============================================================================
