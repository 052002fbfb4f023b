---------------------------- MODULE SquadsProposals ----------------------------
(***************************************************************************)
(* SquadsClient of kit-plugin-squads-multisig: createMultisig,              *)
(* createProposal, approveProposal, rejectProposal and executeProposal of   *)
(* one multisig, called by several members at once.  createProposal reads   *)
(* the index of the last transaction and claims the next; everybody else    *)
(* refers to a proposal by that index.                                      *)
(*                                                                         *)
(* The Squads program is external.  It is taken to accept what the client   *)
(* sends when the accounts it names are in the right state.                 *)
(***************************************************************************)
EXTENDS Integers, Sequences, FiniteSets

CONSTANTS
  Proposer,   \* invocations of createProposal, a retry is another one
  Member,     \* members of the multisig, config.members
  Threshold,  \* config.threshold
  MaxLag,     \* bound: proposals that a node may not know of yet
  MaxNet      \* bound: transactions under way at a time

ASSUME ProposalsAssumption ==
  /\ IsFiniteSet(Member)
  /\ Threshold \in Nat \ {0}
  /\ MaxLag \in Nat
  /\ MaxNet \in Nat

VARIABLES
  setup,      \* where the invocation of createMultisig is
  exists,     \* the multisig exists
  proposals,  \* its proposals with their transactions, by transaction index
  net,        \* transactions that may still land
  pc,         \* pc[c]: where createProposal invocation c is
  idx,        \* idx[c]: the index it claims
  asked       \* asked[c]: the members that called approveProposal for c (history)

vars == <<setup, exists, proposals, net, pc, idx, asked>>

-----------------------------------------------------------------------------
Kind == {"create", "approve", "reject", "execute"}
Tx == [kind : Kind, by : Proposer, member : Member, index : Nat]
Free == Cardinality(net) < MaxNet
Status == {"Active", "Approved", "Rejected", "Executed"}

Init ==
  /\ setup = "idle"
  /\ exists = FALSE
  /\ proposals = << >>
  /\ net = {}
  /\ pc = [c \in Proposer |-> "idle"]
  /\ idx = [c \in Proposer |-> 0]
  /\ asked = [c \in Proposer |-> {}]

-----------------------------------------------------------------------------
\* createMultisig: a key of its own, the program config, one transaction.
createMultisig ==
  /\ setup = "idle"
  /\ setup' = "config"
  /\ UNCHANGED <<exists, proposals, net, pc, idx, asked>>

ProgramConfigRead ==
  /\ setup = "config"
  /\ setup' = "sending"
  /\ UNCHANGED <<exists, proposals, net, pc, idx, asked>>

\* The transaction is confirmed, or the call rejects at either await; what was
\* sent may then still land.
MultisigConfirmed ==
  /\ setup = "sending"
  /\ exists
  /\ setup' = "resolved"
  /\ UNCHANGED <<exists, proposals, net, pc, idx, asked>>

MultisigRejected ==
  /\ setup \in {"config", "sending"}
  /\ setup' = IF setup = "config" THEN "failed" ELSE "unknown"
  /\ UNCHANGED <<exists, proposals, net, pc, idx, asked>>

-----------------------------------------------------------------------------
\* What a transaction index a node may answer with: it may be behind.
Seen == {n \in 0 .. Len(proposals) : Len(proposals) - n <= MaxLag}

createProposal(c) ==
  /\ pc[c] = "idle"
  /\ pc' = [pc EXCEPT ![c] = "reading"]
  /\ UNCHANGED <<setup, exists, proposals, net, idx, asked>>

\* The index before the last is claimed (mutant of IndexRead).
IndexReadBefore(c) ==
  /\ pc[c] = "reading"
  /\ exists
  /\ Free
  /\ \E n \in Seen, m \in Member :
       /\ idx' = [idx EXCEPT ![c] = n - 1]
       /\ net' = net \cup {[kind |-> "create", by |-> c, member |-> m, index |-> n - 1]}
  /\ pc' = [pc EXCEPT ![c] = "sending"]
  /\ UNCHANGED <<setup, exists, proposals, asked>>

\* getMultisigAccount answers; one transaction creates the proposal and the
\* vault transaction at the index after the last.
IndexRead(c) ==
  /\ pc[c] = "reading"
  /\ exists
  /\ Free
  /\ \E n \in Seen, m \in Member :
       /\ idx' = [idx EXCEPT ![c] = n + 1]
       /\ net' = net \cup {[kind |-> "create", by |-> c, member |-> m, index |-> n + 1]}
  /\ pc' = [pc EXCEPT ![c] = "sending"]
  /\ UNCHANGED <<setup, exists, proposals, asked>>

\* c created the proposal at index i.
CreatedAt(c, i) == i \in 1 .. Len(proposals) /\ proposals[i].by = c

\* The call returns as soon as something is at its index (mutant of ProposalConfirmed).
ProposalAssumed(c) ==
  /\ pc[c] = "sending"
  /\ idx[c] \in 1 .. Len(proposals)
  /\ pc' = [pc EXCEPT ![c] = "resolved"]
  /\ UNCHANGED <<setup, exists, proposals, net, idx, asked>>

\* Its transaction is confirmed: the call returns the proposal and its index.
ProposalConfirmed(c) ==
  /\ pc[c] = "sending"
  /\ CreatedAt(c, idx[c])
  /\ pc' = [pc EXCEPT ![c] = "resolved"]
  /\ UNCHANGED <<setup, exists, proposals, net, idx, asked>>

\* The multisig is not found, or a request fails; a transaction that was sent
\* may still land.
ProposalRejected(c) ==
  /\ pc[c] \in {"reading", "sending"}
  /\ pc' = [pc EXCEPT ![c] = IF pc[c] = "reading" THEN "failed" ELSE "rejected"]
  /\ UNCHANGED <<setup, exists, proposals, net, idx, asked>>

-----------------------------------------------------------------------------
\* Sent while the proposal is not confirmed yet (mutant of Sent).
SentEarly(kind, m, c) ==
  /\ pc[c] \in {"sending", "resolved"}
  /\ Free
  /\ net' = net \cup {[kind |-> kind, by |-> c, member |-> m, index |-> idx[c]]}
  /\ UNCHANGED <<setup, exists, proposals, pc, idx>>

\* Members vote for, or execute, the proposal that a createProposal returned:
\* one transaction, with its index.
Sent(kind, m, c) ==
  /\ pc[c] = "resolved"
  /\ Free
  /\ net' = net \cup {[kind |-> kind, by |-> c, member |-> m, index |-> idx[c]]}
  /\ UNCHANGED <<setup, exists, proposals, pc, idx>>

approveProposal(m, c) ==
  /\ Sent("approve", m, c)
  /\ asked' = [asked EXCEPT ![c] = @ \cup {m}]

rejectProposal(m, c) == Sent("reject", m, c) /\ UNCHANGED asked

executeProposal(m, c) == Sent("execute", m, c) /\ UNCHANGED asked

-----------------------------------------------------------------------------
\* The Squads program and the cluster.

ExecuteMultisig ==
  /\ setup \in {"sending", "unknown"}
  /\ ~ exists
  /\ exists' = TRUE
  /\ UNCHANGED <<setup, proposals, net, pc, idx, asked>>

\* The number of rejections that decides.
Cutoff == Cardinality(Member) - Threshold + 1

StatusOf(approved, rejected) ==
  IF Cardinality(approved) >= Threshold THEN "Approved"
  ELSE IF Cardinality(rejected) >= Cutoff THEN "Rejected" ELSE "Active"

\* A vote replaces the other vote of the same member.
Voted(p, approved, rejected) ==
  [p EXCEPT !.approved = approved, !.rejected = rejected,
            !.status = StatusOf(approved, rejected)]

LandCreate(t) ==
  /\ t.kind = "create"
  /\ exists
  /\ t.index = Len(proposals) + 1
  /\ proposals' = Append(proposals,
       [by |-> t.by, status |-> "Active", approved |-> {}, rejected |-> {}])

LandVote(t) ==
  /\ t.index \in 1 .. Len(proposals)
  /\ LET p == proposals[t.index]
         approved == p.approved \ {t.member}
         rejected == p.rejected \ {t.member}
     IN  /\ p.status = "Active"
         /\ \/ /\ t.kind = "approve"
               /\ t.member \notin p.approved
               /\ proposals' = [proposals EXCEPT ![t.index] =
                                  Voted(p, approved \cup {t.member}, rejected)]
            \/ /\ t.kind = "reject"
               /\ t.member \notin p.rejected
               /\ proposals' = [proposals EXCEPT ![t.index] =
                                  Voted(p, approved, rejected \cup {t.member})]

LandExecute(t) ==
  /\ t.kind = "execute"
  /\ t.index \in 1 .. Len(proposals)
  /\ proposals[t.index].status = "Approved"
  /\ proposals' = [proposals EXCEPT ![t.index].status = "Executed"]

\* A transaction lands; until it does it may be late, lost or too old.
Land(t) ==
  /\ LandCreate(t) \/ LandVote(t) \/ LandExecute(t)
  /\ net' = net \ {t}
  /\ UNCHANGED <<setup, exists, pc, idx, asked>>

\* It fails: the accounts are not as it needs them, the time lock is not
\* released, or what the proposal does fails.
Fail(t) ==
  /\ net' = net \ {t}
  /\ UNCHANGED <<setup, exists, proposals, pc, idx, asked>>

Next ==
  \/ createMultisig \/ ProgramConfigRead \/ MultisigConfirmed \/ MultisigRejected
  \/ \E c \in Proposer :
       \/ createProposal(c) \/ IndexRead(c) \/ ProposalConfirmed(c) \/ ProposalRejected(c)
       \/ \E m \in Member :
            approveProposal(m, c) \/ rejectProposal(m, c) \/ executeProposal(m, c)
  \/ ExecuteMultisig
  \/ \E t \in net : Land(t) \/ Fail(t)

Spec == Init /\ [][Next]_vars

-----------------------------------------------------------------------------
\* Type invariant.
TypeOK ==
  /\ setup \in {"idle", "config", "sending", "resolved", "failed", "unknown"}
  /\ exists \in BOOLEAN
  /\ proposals \in Seq([by : Proposer, status : Status,
                        approved : SUBSET Member, rejected : SUBSET Member])
  /\ net \subseteq Tx
  /\ pc \in [Proposer -> {"idle", "reading", "sending", "resolved", "failed", "rejected"}]
  /\ idx \in [Proposer -> Nat]
  /\ asked \in [Proposer -> SUBSET Member]

\* Two createProposal calls that read the same index collide
\* (squads-client.ts:155): a call that returns created what is at the index it
\* returns, and a call that lost the index lost it to another one.
ResolvedOwnsIndex ==
  \A c \in Proposer :
    /\ pc[c] = "resolved" => CreatedAt(c, idx[c])
    /\ pc[c] \in {"sending", "resolved", "rejected"} =>
         idx[c] \in 1 .. Len(proposals) + 1

\* Members name an index, and late transactions land in any order: what is
\* approved at an index was approved by members who were asked for the proposal
\* that is there, never for another one that lost the index.
VotesAreForTheirProposal ==
  \A i \in 1 .. Len(proposals) : proposals[i].approved \subseteq asked[proposals[i].by]

\* A proposal that a call created is found at one index only.
CreatedOnce ==
  \A i, j \in 1 .. Len(proposals) : proposals[i].by = proposals[j].by => i = j

Executed == {c \in Proposer :
               \E i \in 1 .. Len(proposals) : CreatedAt(c, i) /\ proposals[i].status = "Executed"}

Abstract == INSTANCE Agreement WITH agreed <- asked, done <- Executed

\* What was proposed is carried out at most once, after Threshold members called
\* approveProposal for it.
ImplementsAgreement == Abstract!Spec
=============================================================================
