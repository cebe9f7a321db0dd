---------------------------- MODULE CommitteeInv ----------------------------
(***************************************************************************)
(* The inductive invariant of Committee: the certificate is what the       *)
(* leader's bitmap and aggregate became, and the header knows where it is  *)
(* meant to go.                                                            *)
(***************************************************************************)
EXTENDS Committee

CertOfVotes ==
    /\ cert \in {{}, {[bitmap |-> bitmap, sig |-> sig]}}
    /\ cert # {} <=> Enough(Conf(LeaderOf(shard)), bitmap)

DstMeant == GetElement(dst) = {s - FirstPShard : s \in meant}

CommitteeInv ==
    TypeOK /\ VotesCounted /\ CertOfVotes /\ DstMeant /\ OnlyDestinations
=============================================================================
