------------------------ MODULE SquadsProposalsProofs ------------------------
(***************************************************************************)
(* Theorems about SquadsProposals, for every finite set of members, every   *)
(* threshold, any number of proposals and any number of transactions.       *)
(***************************************************************************)
EXTENDS SquadsProposals, FiniteSetTheorems, TLAPS

-----------------------------------------------------------------------------
\* The inductive invariant.

Proposal == [by : Proposer, status : Status,
             approved : SUBSET Member, rejected : SUBSET Member]

\* What has begun to claim an index, and may have created a proposal.
Claiming == {"sending", "resolved", "rejected"}

\* A transaction that creates a proposal is under way once, before there is a
\* proposal of that call; any other one is about a proposal that exists and that
\* its sender meant, and an approval was asked for.
NetIsMeant ==
  \A t \in net :
    /\ t.kind = "create" =>
         /\ t.index = idx[t.by]
         /\ pc[t.by] \in Claiming \ {"resolved"}
         /\ \A i \in 1 .. Len(proposals) : proposals[i].by # t.by
         /\ \A u \in net : u.kind = "create" /\ u.by = t.by => u = t
    /\ t.kind # "create" => CreatedAt(t.by, t.index)
    /\ t.kind = "approve" => t.member \in asked[t.by]

\* What is known of the proposal at index i.
OwnedAt(p, i) ==
  /\ idx[p.by] = i
  /\ pc[p.by] \in Claiming
  /\ p.approved \subseteq asked[p.by]
  /\ p.status = "Approved" => Cardinality(p.approved) >= Threshold

ProposalsAreOwned == \A i \in 1 .. Len(proposals) : OwnedAt(proposals[i], i)

IInv == TypeOK /\ ResolvedOwnsIndex /\ NetIsMeant /\ ProposalsAreOwned

\* Proposals are records of their type.
LEMMA ProposalTypes ==
  ASSUME TypeOK, NEW i \in 1 .. Len(proposals)
  PROVE  proposals[i] \in Proposal /\ proposals[i].by \in Proposer
<1>1. proposals \in Seq(Proposal)
  BY DEF TypeOK, Proposal
<1>2. proposals[i] \in Proposal
  BY <1>1
<1> QED BY <1>2 DEF Proposal

-----------------------------------------------------------------------------
\* What a transaction does to the proposals when it lands.

LEMMA CreateEffect ==
  ASSUME TypeOK, NEW t \in net, LandCreate(t)
  PROVE  /\ proposals' \in Seq(Proposal)
         /\ Len(proposals') = Len(proposals) + 1
         /\ \A i \in 1 .. Len(proposals) : proposals'[i] = proposals[i]
         /\ proposals'[Len(proposals) + 1] =
              [by |-> t.by, status |-> "Active", approved |-> {}, rejected |-> {}]
<1> DEFINE new == [by |-> t.by, status |-> "Active", approved |-> {}, rejected |-> {}]
<1>1. proposals \in Seq(Proposal) /\ t \in Tx
  BY DEF TypeOK, Proposal
<1>2. new \in Proposal
  BY <1>1 DEF Tx, Proposal, Status
<1>3. proposals' = Append(proposals, new)
  BY DEF LandCreate
<1> HIDE DEF new
<1>4. /\ proposals' \in Seq(Proposal)
      /\ Len(proposals') = Len(proposals) + 1
      /\ \A i \in 1 .. Len(proposals) : proposals'[i] = proposals[i]
      /\ proposals'[Len(proposals) + 1] = new
  BY <1>1, <1>2, <1>3
<1> QED BY <1>4 DEF new

\* A vote changes one proposal: an approval adds its member at most, the status
\* follows the approvals, and nothing is executed.
LEMMA VoteEffect ==
  ASSUME TypeOK, NEW t \in net, LandVote(t)
  PROVE  /\ proposals' \in Seq(Proposal)
         /\ Len(proposals') = Len(proposals)
         /\ t.index \in 1 .. Len(proposals)
         /\ t.kind # "create"
         /\ proposals[t.index].status = "Active"
         /\ \A i \in 1 .. Len(proposals) : i # t.index => proposals'[i] = proposals[i]
         /\ proposals'[t.index].by = proposals[t.index].by
         /\ proposals'[t.index].status # "Executed"
         /\ proposals'[t.index].approved \subseteq proposals[t.index].approved \cup
              (IF t.kind = "approve" THEN {t.member} ELSE {})
         /\ proposals'[t.index].status = "Approved" =>
              Cardinality(proposals'[t.index].approved) >= Threshold
<1> DEFINE p == proposals[t.index]
<1>1. proposals \in Seq(Proposal) /\ t \in Tx
  BY DEF TypeOK, Proposal
<1>2. t.index \in 1 .. Len(proposals) /\ p.status = "Active"
  BY DEF LandVote
<1>3. p \in Proposal
  BY <1>1, <1>2
<1>4. PICK approved \in SUBSET Member, rejected \in SUBSET Member :
        /\ proposals' = [proposals EXCEPT ![t.index] = Voted(p, approved, rejected)]
        /\ approved \subseteq p.approved \cup (IF t.kind = "approve" THEN {t.member} ELSE {})
        /\ t.kind # "create"
  <2> DEFINE a == p.approved \ {t.member}
             r == p.rejected \ {t.member}
  <2>1. t.member \in Member /\ p.approved \subseteq Member /\ p.rejected \subseteq Member
    BY <1>1, <1>3 DEF Tx, Proposal
  <2>2. CASE t.kind = "approve"
    <3>1. proposals' = [proposals EXCEPT ![t.index] = Voted(p, a \cup {t.member}, r)]
      BY <2>2 DEF LandVote
    <3>2. a \cup {t.member} \in SUBSET Member /\ r \in SUBSET Member
      BY <2>1
    <3>3. a \cup {t.member} \subseteq p.approved \cup {t.member}
      OBVIOUS
    <3> USE <3>2
    <3> WITNESS a \cup {t.member} \in SUBSET Member, r \in SUBSET Member
    <3> QED BY <2>2, <3>1, <3>3
  <2>3. CASE t.kind = "reject"
    <3>1. proposals' = [proposals EXCEPT ![t.index] = Voted(p, a, r \cup {t.member})]
      BY <2>3 DEF LandVote
    <3>2. a \in SUBSET Member /\ r \cup {t.member} \in SUBSET Member
      BY <2>1
    <3>3. a \subseteq p.approved
      OBVIOUS
    <3> USE <3>2
    <3> WITNESS a \in SUBSET Member, r \cup {t.member} \in SUBSET Member
    <3> QED BY <2>3, <3>1, <3>3
  <2> QED BY <2>2, <2>3 DEF LandVote
<1> DEFINE q == Voted(p, approved, rejected)
<1>5. /\ q \in Proposal
      /\ q.by = p.by
      /\ q.approved = approved
      /\ q.status = StatusOf(approved, rejected)
  BY <1>3 DEF Voted, Proposal, StatusOf, Status
<1>6. /\ q.status # "Executed"
      /\ q.status = "Approved" => Cardinality(approved) >= Threshold
  BY <1>5 DEF StatusOf
<1> HIDE DEF p, q
<1>7. /\ proposals' \in Seq(Proposal)
      /\ Len(proposals') = Len(proposals)
      /\ proposals'[t.index] = q
      /\ \A i \in 1 .. Len(proposals) : i # t.index => proposals'[i] = proposals[i]
  BY <1>1, <1>2, <1>4, <1>5 DEF q
<1> QED BY <1>2, <1>4, <1>5, <1>6, <1>7 DEF p

LEMMA ExecuteEffect ==
  ASSUME TypeOK, NEW t \in net, LandExecute(t)
  PROVE  /\ proposals' \in Seq(Proposal)
         /\ Len(proposals') = Len(proposals)
         /\ t.index \in 1 .. Len(proposals)
         /\ t.kind = "execute"
         /\ proposals[t.index].status = "Approved"
         /\ \A i \in 1 .. Len(proposals) : i # t.index => proposals'[i] = proposals[i]
         /\ proposals'[t.index] = [proposals[t.index] EXCEPT !.status = "Executed"]
         /\ proposals'[t.index].by = proposals[t.index].by
         /\ proposals'[t.index].approved = proposals[t.index].approved
         /\ proposals'[t.index].status = "Executed"
<1> DEFINE p == proposals[t.index]
           q == [p EXCEPT !.status = "Executed"]
<1>1. proposals \in Seq(Proposal) /\ t.index \in 1 .. Len(proposals)
  BY DEF TypeOK, Proposal, LandExecute
<1>2. p \in Proposal
  BY <1>1
<1>3. q \in Proposal /\ q.by = p.by /\ q.approved = p.approved /\ q.status = "Executed"
  BY <1>2 DEF Proposal, Status
<1>4. proposals' = [proposals EXCEPT ![t.index] = q]
  BY DEF LandExecute
<1> HIDE DEF p, q
<1>5. /\ proposals' \in Seq(Proposal)
      /\ Len(proposals') = Len(proposals)
      /\ proposals'[t.index] = q
      /\ \A i \in 1 .. Len(proposals) : i # t.index => proposals'[i] = proposals[i]
  BY <1>1, <1>3, <1>4
<1>6. t.kind = "execute" /\ p.status = "Approved"
  BY DEF LandExecute, p
<1> QED BY <1>1, <1>3, <1>5, <1>6 DEF p, q

-----------------------------------------------------------------------------
\* IInv is inductive.

LEMMA InitIInv == Init => IInv
<1> SUFFICES ASSUME Init PROVE IInv
  OBVIOUS
<1> USE DEF Init
<1>1. TypeOK
  <2>1. proposals \in Seq([by : Proposer, status : Status,
                          approved : SUBSET Member, rejected : SUBSET Member])
    OBVIOUS
  <2>2. idx \in [Proposer -> Nat] /\ asked \in [Proposer -> SUBSET Member]
    OBVIOUS
  <2>3. net \subseteq Tx
    OBVIOUS
  <2> QED BY <2>1, <2>2, <2>3 DEF TypeOK
<1>2. ResolvedOwnsIndex /\ NetIsMeant /\ ProposalsAreOwned
  BY DEF ResolvedOwnsIndex, NetIsMeant, ProposalsAreOwned
<1> QED BY <1>1, <1>2 DEF IInv

\* Steps of createMultisig, the start of a createProposal, and its rejections
\* leave proposals, claims and transactions alone.
LEMMA QuietStep ==
  ASSUME IInv, TypeOK', UNCHANGED <<proposals, net, idx, asked>>,
         \A c \in Proposer :
           /\ pc[c] \in Claiming => pc'[c] \in Claiming
           /\ pc[c] \in Claiming \ {"resolved"} /\ pc'[c] = "resolved" => CreatedAt(c, idx[c])
           /\ pc'[c] \in Claiming => pc[c] \in Claiming
  PROVE  IInv'
<1> USE DEF IInv
<1>1. ResolvedOwnsIndex'
  BY DEF ResolvedOwnsIndex, CreatedAt, Claiming
<1>2. NetIsMeant'
  <2> SUFFICES ASSUME NEW t \in net,  t.kind = "create"
               PROVE  pc'[t.by] \in Claiming \ {"resolved"}
    BY DEF NetIsMeant, CreatedAt
  <2>1. t.by \in Proposer
    BY DEF TypeOK, Tx
  <2>2. ~ CreatedAt(t.by, idx[t.by]) /\ pc[t.by] \in Claiming \ {"resolved"}
    BY DEF NetIsMeant, CreatedAt
  <2> QED BY <2>1, <2>2
<1>3. ProposalsAreOwned'
  <2> SUFFICES ASSUME NEW i \in 1 .. Len(proposals)
               PROVE  pc'[proposals[i].by] \in Claiming
    BY DEF ProposalsAreOwned, OwnedAt
  <2>1. proposals[i].by \in Proposer
    BY ProposalTypes
  <2> QED BY <2>1 DEF ProposalsAreOwned, OwnedAt
<1> QED BY <1>1, <1>2, <1>3

\* createProposal claims the index after the last that its node knows of.
LEMMA IndexReadStep ==
  ASSUME IInv, NEW c \in Proposer, IndexRead(c)
  PROVE  IInv'
<1> USE DEF IInv
<1>1. PICK n \in Seen, m \in Member :
        /\ idx' = [idx EXCEPT ![c] = n + 1]
        /\ net' = net \cup {[kind |-> "create", by |-> c, member |-> m, index |-> n + 1]}
  BY DEF IndexRead
<1>2. n \in Nat /\ n <= Len(proposals) /\ Len(proposals) \in Nat
  BY DEF Seen, TypeOK
<1>3. /\ pc' = [pc EXCEPT ![c] = "sending"]
      /\ pc[c] = "reading"
      /\ UNCHANGED <<setup, exists, proposals, asked>>
  BY DEF IndexRead
<1> DEFINE new == [kind |-> "create", by |-> c, member |-> m, index |-> n + 1]
<1>4. TypeOK'
  <2>1. new \in Tx
    BY <1>2 DEF Tx, Kind
  <2> QED BY <1>1, <1>2, <1>3, <2>1 DEF TypeOK
<1>5. \A i \in 1 .. Len(proposals) : proposals[i].by # c /\ proposals[i].by \in Proposer
  BY <1>3, ProposalTypes DEF ProposalsAreOwned, OwnedAt, Claiming
<1>6. \A t \in net : t.by # c /\ t.by \in Proposer
  BY <1>3, <1>5 DEF NetIsMeant, CreatedAt, Claiming, TypeOK, Tx
<1>7. ResolvedOwnsIndex'
  BY <1>1, <1>2, <1>3 DEF ResolvedOwnsIndex, CreatedAt, TypeOK
<1>8. NetIsMeant'
  <2> SUFFICES ASSUME NEW t \in net'
               PROVE  /\ t.kind = "create" =>
                           /\ t.index = idx'[t.by]
                           /\ pc'[t.by] \in Claiming \ {"resolved"}
                           /\ \A i \in 1 .. Len(proposals) : proposals[i].by # t.by
                           /\ \A u \in net' : u.kind = "create" /\ u.by = t.by => u = t
                      /\ t.kind # "create" => CreatedAt(t.by, t.index)
                      /\ t.kind = "approve" => t.member \in asked[t.by]
    BY <1>3 DEF NetIsMeant, CreatedAt
  <2>1. CASE t = new
    BY <1>1, <1>2, <1>3, <1>5, <1>6, <2>1 DEF TypeOK, Claiming
  <2>2. CASE t \in net
    BY <1>1, <1>3, <1>6, <2>2 DEF NetIsMeant, TypeOK
  <2> QED BY <1>1, <2>1, <2>2
<1>9. ProposalsAreOwned'
  BY <1>1, <1>3, <1>5 DEF ProposalsAreOwned, OwnedAt, TypeOK
<1> QED BY <1>4, <1>7, <1>8, <1>9

\* A vote or an execution is sent for a proposal that its createProposal returned.
LEMMA SentStep ==
  ASSUME IInv, NEW c \in Proposer, NEW m \in Member,
         NEW kind \in Kind \ {"create"}, Sent(kind, m, c),
         asked' = [asked EXCEPT ![c] = IF kind = "approve" THEN @ \cup {m} ELSE @]
  PROVE  IInv'
<1> USE DEF IInv
<1> DEFINE new == [kind |-> kind, by |-> c, member |-> m, index |-> idx[c]]
<1>1. /\ pc[c] = "resolved"
      /\ net' = net \cup {new}
      /\ UNCHANGED <<setup, exists, proposals, pc, idx>>
  BY DEF Sent
<1>2. CreatedAt(c, idx[c])
  BY <1>1 DEF ResolvedOwnsIndex
<1>3. /\ asked' \in [Proposer -> SUBSET Member]
      /\ \A d \in Proposer : asked[d] \subseteq asked'[d]
      /\ kind = "approve" => m \in asked'[c]
  BY DEF TypeOK
<1>4. TypeOK'
  <2>1. new \in Tx
    BY DEF Tx, TypeOK
  <2> QED BY <1>1, <1>3, <2>1 DEF TypeOK
<1>5. ResolvedOwnsIndex'
  BY <1>1 DEF ResolvedOwnsIndex, CreatedAt
<1>6. NetIsMeant'
  <2> SUFFICES ASSUME NEW t \in net'
               PROVE  /\ t.kind = "create" =>
                           /\ t.index = idx[t.by]
                           /\ pc[t.by] \in Claiming \ {"resolved"}
                           /\ \A i \in 1 .. Len(proposals) : proposals[i].by # t.by
                           /\ \A u \in net' : u.kind = "create" /\ u.by = t.by => u = t
                      /\ t.kind # "create" => CreatedAt(t.by, t.index)
                      /\ t.kind = "approve" => t.member \in asked'[t.by]
    BY <1>1 DEF NetIsMeant, CreatedAt
  <2>1. CASE t = new
    BY <1>2, <1>3, <2>1
  <2>2. CASE t \in net
    <3>1. t.by \in Proposer
      BY <2>2 DEF TypeOK, Tx
    <3>2. \A u \in net' : u.kind = "create" => u \in net
      BY <1>1
    <3> QED BY <1>3, <2>2, <3>1, <3>2 DEF NetIsMeant
  <2> QED BY <1>1, <2>1, <2>2
<1>7. ProposalsAreOwned'
  <2> SUFFICES ASSUME NEW i \in 1 .. Len(proposals)
               PROVE  OwnedAt(proposals[i], i)'
    BY <1>1 DEF ProposalsAreOwned
  <2>1. proposals[i].by \in Proposer
    BY ProposalTypes
  <2> QED BY <1>1, <1>3, <2>1 DEF ProposalsAreOwned, OwnedAt
<1> QED BY <1>4, <1>5, <1>6, <1>7

\* A transaction that does not land changes nothing.
LEMMA FailStep ==
  ASSUME IInv, NEW t \in net, Fail(t)
  PROVE  IInv'
<1> USE DEF IInv
<1>1. net' = net \ {t} /\ UNCHANGED <<setup, exists, proposals, pc, idx, asked>>
  BY DEF Fail
<1>2. TypeOK'
  BY <1>1 DEF TypeOK
<1>3. ResolvedOwnsIndex' /\ ProposalsAreOwned'
  BY <1>1 DEF ResolvedOwnsIndex, CreatedAt, ProposalsAreOwned, OwnedAt
<1>4. NetIsMeant'
  BY <1>1 DEF NetIsMeant, CreatedAt
<1> QED BY <1>2, <1>3, <1>4

LEMMA LandCreateStep ==
  ASSUME IInv, NEW t \in net, Land(t), LandCreate(t)
  PROVE  IInv'
<1> USE DEF IInv
<1>1. net' = net \ {t} /\ UNCHANGED <<setup, exists, pc, idx, asked>>
  BY DEF Land
<1>2. /\ t.kind = "create"
      /\ t.index = Len(proposals) + 1
      /\ t.by \in Proposer
  BY DEF LandCreate, TypeOK, Tx
<1> DEFINE new == [by |-> t.by, status |-> "Active", approved |-> {}, rejected |-> {}]
<1>3. /\ proposals' \in Seq(Proposal)
      /\ Len(proposals') = Len(proposals) + 1
      /\ \A i \in 1 .. Len(proposals) : proposals'[i] = proposals[i]
      /\ proposals'[Len(proposals) + 1] = new
  BY CreateEffect
<1>4. Len(proposals) \in Nat
  BY DEF TypeOK
<1>5. /\ idx[t.by] = Len(proposals) + 1
      /\ pc[t.by] \in Claiming
      /\ \A u \in net : u.kind = "create" /\ u.by = t.by => u = t
  BY <1>2 DEF NetIsMeant
<1> HIDE DEF new
<1>6. \A i \in 1 .. Len(proposals') : i \in 1 .. Len(proposals) \/ i = Len(proposals) + 1
  BY <1>3, <1>4
<1>7. \A c \in Proposer, i \in Nat : CreatedAt(c, i) => CreatedAt(c, i)'
  BY <1>3, <1>4 DEF CreatedAt
<1>8. TypeOK'
  BY <1>1, <1>3 DEF TypeOK, Proposal
<1>9. ResolvedOwnsIndex'
  <2> SUFFICES ASSUME NEW c \in Proposer
               PROVE  /\ pc[c] = "resolved" => CreatedAt(c, idx[c])'
                      /\ pc[c] \in {"sending", "resolved", "rejected"} =>
                           idx[c] \in 1 .. Len(proposals')  + 1
    BY <1>1 DEF ResolvedOwnsIndex
  <2>1. idx[c] \in Nat
    BY DEF TypeOK
  <2> QED BY <1>1, <1>3, <1>4, <1>7, <2>1 DEF ResolvedOwnsIndex
<1>10. NetIsMeant'
  <2> SUFFICES ASSUME NEW u \in net, u # t
               PROVE  /\ u.kind = "create" =>
                           \A i \in 1 .. Len(proposals') : proposals'[i].by # u.by
                      /\ u.kind # "create" => CreatedAt(u.by, u.index)'
    BY <1>1 DEF NetIsMeant
  <2>1. u.by \in Proposer /\ u.index \in Nat
    BY DEF TypeOK, Tx
  <2>2. CASE u.kind = "create"
    <3>1. u.by # t.by
      BY <1>5, <2>2
    <3>2. new.by = t.by
      BY DEF new
    <3> QED BY <1>3, <1>6, <2>2, <3>1, <3>2 DEF NetIsMeant
  <2>3. CASE u.kind # "create"
    BY <1>7, <2>1, <2>3 DEF NetIsMeant
  <2> QED BY <2>2, <2>3
<1>11. ProposalsAreOwned'
  <2> SUFFICES ASSUME NEW i \in 1 .. Len(proposals')
               PROVE  OwnedAt(proposals'[i], i)
    BY <1>1 DEF ProposalsAreOwned, OwnedAt
  <2>1. CASE i \in 1 .. Len(proposals)
    BY <1>3, <2>1 DEF ProposalsAreOwned
  <2>2. CASE i = Len(proposals) + 1
    BY <1>3, <1>5, <2>2 DEF OwnedAt, new
  <2> QED BY <1>6, <2>1, <2>2
<1> QED BY <1>8, <1>9, <1>10, <1>11

\* A vote or an execution that lands leaves all owners where they are.
LEMMA LandOtherStep ==
  ASSUME IInv, NEW t \in net, Land(t), ~ LandCreate(t)
  PROVE  IInv'
<1> USE DEF IInv
<1>1. net' = net \ {t} /\ UNCHANGED <<setup, exists, pc, idx, asked>>
  BY DEF Land
<1>2. /\ proposals' \in Seq(Proposal)
      /\ Len(proposals') = Len(proposals)
      /\ t.index \in 1 .. Len(proposals)
      /\ t.kind # "create"
      /\ \A i \in 1 .. Len(proposals) : i # t.index => proposals'[i] = proposals[i]
      /\ proposals'[t.index].by = proposals[t.index].by
      /\ proposals'[t.index].approved \subseteq proposals[t.index].approved \cup
           (IF t.kind = "approve" THEN {t.member} ELSE {})
      /\ proposals'[t.index].status = "Approved" =>
           Cardinality(proposals'[t.index].approved) >= Threshold
  <2>1. CASE LandVote(t)
    BY <2>1, VoteEffect
  <2>2. CASE LandExecute(t)
    BY <2>2, ExecuteEffect
  <2> QED BY <2>1, <2>2 DEF Land
<1>3. \A i \in 1 .. Len(proposals) : proposals'[i].by = proposals[i].by
  BY <1>2
<1>4. \A c, i : CreatedAt(c, i)' <=> CreatedAt(c, i)
  BY <1>2, <1>3 DEF CreatedAt
<1>5. TypeOK'
  BY <1>1, <1>2 DEF TypeOK, Proposal
<1>6. ResolvedOwnsIndex'
  BY <1>1, <1>2, <1>4 DEF ResolvedOwnsIndex
<1>7. NetIsMeant'
  BY <1>1, <1>2, <1>3, <1>4 DEF NetIsMeant
<1>8. ProposalsAreOwned'
  <2> SUFFICES ASSUME NEW i \in 1 .. Len(proposals)
               PROVE  OwnedAt(proposals'[i], i)
    BY <1>1, <1>2 DEF ProposalsAreOwned, OwnedAt
  <2>1. CASE i # t.index
    BY <1>2, <2>1 DEF ProposalsAreOwned
  <2>2. CASE i = t.index
    <3>1. OwnedAt(proposals[i], i) /\ CreatedAt(t.by, i)
      BY <1>2, <2>2 DEF ProposalsAreOwned, NetIsMeant
    <3>2. t.kind = "approve" => t.member \in asked[proposals[i].by]
      BY <3>1 DEF NetIsMeant, CreatedAt
    <3> QED BY <1>2, <2>2, <3>1, <3>2 DEF OwnedAt
  <2> QED BY <2>1, <2>2
<1> QED BY <1>5, <1>6, <1>7, <1>8

LEMMA NextIInv == IInv /\ [Next]_vars => IInv'
<1> SUFFICES ASSUME IInv, [Next]_vars PROVE IInv'
  OBVIOUS
<1>1. CASE createMultisig \/ ProgramConfigRead \/ MultisigConfirmed \/ MultisigRejected \/ ExecuteMultisig
  <2>1. UNCHANGED <<proposals, net, pc, idx, asked>> /\ TypeOK'
    BY <1>1 DEF IInv, TypeOK, createMultisig, ProgramConfigRead, MultisigConfirmed,
                MultisigRejected, ExecuteMultisig
  <2> QED BY <2>1, QuietStep
<1>2. ASSUME NEW c \in Proposer, createProposal(c) \/ ProposalConfirmed(c) \/ ProposalRejected(c)
      PROVE  IInv'
  <2>1. UNCHANGED <<setup, exists, proposals, net, idx, asked>>
    BY <1>2 DEF createProposal, ProposalConfirmed, ProposalRejected
  <2>2. TypeOK'
    BY <1>2, <2>1 DEF IInv, TypeOK, createProposal, ProposalConfirmed, ProposalRejected
  <2>3. \A d \in Proposer : d # c => pc'[d] = pc[d]
    BY <1>2 DEF IInv, TypeOK, createProposal, ProposalConfirmed, ProposalRejected
  <2>4. /\ pc[c] \in Claiming => pc'[c] \in Claiming
        /\ pc[c] \in Claiming \ {"resolved"} /\ pc'[c] = "resolved" => CreatedAt(c, idx[c])
        /\ pc'[c] \in Claiming => pc[c] \in Claiming
    BY <1>2 DEF IInv, TypeOK, createProposal, ProposalConfirmed, ProposalRejected, Claiming
  <2> QED BY <2>1, <2>2, <2>3, <2>4, QuietStep
<1>3. ASSUME NEW c \in Proposer, IndexRead(c) PROVE IInv'
  BY <1>3, IndexReadStep
<1>4. ASSUME NEW c \in Proposer, NEW m \in Member,
             approveProposal(m, c) \/ rejectProposal(m, c) \/ executeProposal(m, c)
      PROVE  IInv'
  <2>1. PICK kind \in Kind \ {"create"} :
          /\ Sent(kind, m, c)
          /\ asked' = [asked EXCEPT ![c] = IF kind = "approve" THEN @ \cup {m} ELSE @]
    <3>1. asked = [asked EXCEPT ![c] = @]
      BY DEF IInv, TypeOK
    <3>2. CASE approveProposal(m, c)
      BY <3>2 DEF approveProposal, Kind
    <3>3. CASE rejectProposal(m, c)
      BY <3>1, <3>3 DEF rejectProposal, Kind
    <3>4. CASE executeProposal(m, c)
      BY <3>1, <3>4 DEF executeProposal, Kind
    <3> QED BY <1>4, <3>2, <3>3, <3>4
  <2> QED BY <2>1, SentStep
<1>5. ASSUME NEW t \in net, Land(t) \/ Fail(t) PROVE IInv'
  BY <1>5, LandCreateStep, LandOtherStep, FailStep
<1>6. CASE UNCHANGED vars
  BY <1>6 DEF vars, IInv, TypeOK, ResolvedOwnsIndex, NetIsMeant, ProposalsAreOwned, OwnedAt, CreatedAt
<1> QED BY <1>1, <1>2, <1>3, <1>4, <1>5, <1>6 DEF Next

-----------------------------------------------------------------------------
\* The inductive invariant holds in every reachable state.
THEOREM Invariance == Spec => []IInv
BY InitIInv, NextIInv, PTL DEF Spec

\* Every variable keeps its type.
THEOREM TypeCorrectness == Spec => []TypeOK
<1>1. IInv => TypeOK
  BY DEF IInv
<1> QED BY <1>1, Invariance, PTL

\* However stale the index was that createProposal read (squads-client.ts:155),
\* and whatever the others did: a call that returns created what is at its index.
THEOREM ResolvedCallOwnsIndex == Spec => []ResolvedOwnsIndex
<1>1. IInv => ResolvedOwnsIndex
  BY DEF IInv
<1> QED BY <1>1, Invariance, PTL

\* Votes name an index alone (squads-client.ts:206-235), and still each counts for
\* the proposal that its member meant.
THEOREM VotesAreMeant == Spec => []VotesAreForTheirProposal
<1>1. IInv => VotesAreForTheirProposal
  BY DEF IInv, ProposalsAreOwned, OwnedAt, VotesAreForTheirProposal
<1> QED BY <1>1, Invariance, PTL

\* A createProposal call creates one proposal at most.
LEMMA IInvCreatedOnce == IInv => CreatedOnce
BY DEF IInv, ProposalsAreOwned, OwnedAt, CreatedOnce

-----------------------------------------------------------------------------
\* SquadsProposals implements Agreement.

\* A step that keeps who created what and what is executed does not change done.
LEMMA ExecutedUnchanged ==
  ASSUME Len(proposals') = Len(proposals),
         \A i \in 1 .. Len(proposals) :
           /\ proposals'[i].by = proposals[i].by
           /\ proposals'[i].status = "Executed" <=> proposals[i].status = "Executed"
  PROVE  Executed' = Executed
BY DEF Executed, CreatedAt

\* A new proposal is not executed.
LEMMA CreateStutters ==
  ASSUME IInv, NEW t \in net, LandCreate(t)
  PROVE  Executed' = Executed
<1>0. TypeOK
  BY DEF IInv
<1>1. /\ Len(proposals') = Len(proposals) + 1
      /\ \A i \in 1 .. Len(proposals) : proposals'[i] = proposals[i]
      /\ proposals'[Len(proposals) + 1].status = "Active"
  <2>1. /\ Len(proposals') = Len(proposals) + 1
        /\ \A i \in 1 .. Len(proposals) : proposals'[i] = proposals[i]
        /\ proposals'[Len(proposals) + 1] =
             [by |-> t.by, status |-> "Active", approved |-> {}, rejected |-> {}]
    BY <1>0, CreateEffect, Zenon
  <2> QED BY <2>1
<1>2. Len(proposals) \in Nat
  BY DEF IInv, TypeOK
<1> QED BY <1>1, <1>2 DEF Executed, CreatedAt

\* What is executed was approved, by members who were asked, and is executed once.
LEMMA ExecuteCarriesOut ==
  ASSUME IInv, NEW t \in net, LandExecute(t), UNCHANGED asked
  PROVE  \E c \in Proposer : Abstract!CarryOut(c)
<1> DEFINE i == t.index
           c == proposals[i].by
<1>1. /\ Len(proposals') = Len(proposals)
      /\ i \in 1 .. Len(proposals)
      /\ proposals[i].status = "Approved"
      /\ \A j \in 1 .. Len(proposals) : j # i => proposals'[j] = proposals[j]
      /\ proposals'[i].by = c
      /\ proposals'[i].status = "Executed"
  BY ExecuteEffect DEF IInv
<1>2. c \in Proposer
  BY <1>1, ProposalTypes DEF IInv
<1>3. \A j \in 1 .. Len(proposals) : proposals[j].by = c => j = i
  BY <1>1, IInvCreatedOnce DEF CreatedOnce
<1>4. c \notin Executed
  BY <1>1, <1>3 DEF Executed, CreatedAt
<1>5. Cardinality(asked[c]) >= Threshold
  <2>1. /\ proposals[i].approved \subseteq asked[c]
        /\ Cardinality(proposals[i].approved) >= Threshold
    BY <1>1 DEF IInv, ProposalsAreOwned, OwnedAt
  <2>2. asked[c] \subseteq Member
    BY <1>2 DEF IInv, TypeOK
  <2>3. IsFiniteSet(asked[c])
    BY <2>2, FS_Subset, ProposalsAssumption
  <2>4. /\ Cardinality(proposals[i].approved) <= Cardinality(asked[c])
        /\ Cardinality(proposals[i].approved) \in Nat
        /\ Cardinality(asked[c]) \in Nat
    BY <2>1, <2>3, FS_Subset, FS_CardinalityType
  <2> QED BY <2>1, <2>4, ProposalsAssumption
<1>6. Executed' = Executed \cup {c}
  <2> HIDE DEF i
  <2>1. \A d \in Proposer : d \in Executed' => d \in Executed \cup {c}
    BY <1>1 DEF Executed, CreatedAt
  <2>2. \A d \in Executed : d \in Executed'
    BY <1>1 DEF Executed, CreatedAt
  <2>3. c \in Executed'
    BY <1>1, <1>2 DEF Executed, CreatedAt
  <2> QED BY <1>2, <2>1, <2>2, <2>3 DEF Executed
<1>7. Abstract!CarryOut(c)
  <2> HIDE DEF i, c
  <2>1. Abstract!Cardinality(asked[c]) >= Threshold
    BY <1>5, Zenon DEF Cardinality, Abstract!Cardinality
  <2> QED BY <1>4, <1>6, <2>1, Zenon DEF Abstract!CarryOut
<1> QED BY <1>2, <1>7

\* Every step is a step of Agreement or leaves it alone.
LEMMA StepSimulation ==
  ASSUME IInv, [Next]_vars
  PROVE  [Abstract!Next]_<<asked, Executed>>
<1>1. CASE UNCHANGED <<proposals, asked>>
  BY <1>1 DEF Executed, CreatedAt
<1>2. ASSUME NEW c \in Proposer, NEW m \in Member, approveProposal(m, c)
      PROVE  Abstract!Next
  <2>1. UNCHANGED proposals /\ asked' = [asked EXCEPT ![c] = @ \cup {m}]
    BY <1>2 DEF approveProposal, Sent
  <2>2. Executed' = Executed
    BY <2>1 DEF Executed, CreatedAt
  <2>3. Abstract!Agree(m, c)
    BY <2>1, <2>2 DEF Abstract!Agree
  <2> QED BY <2>3 DEF Abstract!Next
<1>3. ASSUME NEW t \in net, Land(t)
      PROVE  [Abstract!Next]_<<asked, Executed>>
  <2>1. UNCHANGED asked
    BY <1>3 DEF Land
  <2>2. CASE LandCreate(t)
    BY <2>1, <2>2, CreateStutters
  <2>3. CASE LandVote(t)
    <3>1. /\ Len(proposals') = Len(proposals)
          /\ t.index \in 1 .. Len(proposals)
          /\ proposals[t.index].status = "Active"
          /\ \A i \in 1 .. Len(proposals) : i # t.index => proposals'[i] = proposals[i]
          /\ proposals'[t.index].by = proposals[t.index].by
          /\ proposals'[t.index].status # "Executed"
      BY <2>3, VoteEffect DEF IInv
    <3> QED BY <2>1, <3>1, ExecutedUnchanged
  <2>4. CASE LandExecute(t)
    BY <2>1, <2>4, ExecuteCarriesOut DEF Abstract!Next
  <2> QED BY <1>3, <2>2, <2>3, <2>4 DEF Land
<1>4. CASE UNCHANGED vars
  BY <1>1, <1>4 DEF vars
<1>5. CASE Next
  <2>1. CASE \E c \in Proposer, m \in Member : approveProposal(m, c)
    BY <1>2, <2>1
  <2>2. CASE \E t \in net : Land(t)
    BY <1>3, <2>2
  <2>3. ASSUME ~ \E c \in Proposer, m \in Member : approveProposal(m, c),
               ~ \E t \in net : Land(t)
        PROVE  UNCHANGED <<proposals, asked>>
    BY <1>5, <2>3 DEF Next, createMultisig, ProgramConfigRead, MultisigConfirmed,
                      MultisigRejected, createProposal, IndexRead, ProposalConfirmed,
                      ProposalRejected, rejectProposal, executeProposal, Sent,
                      ExecuteMultisig, Fail
  <2> QED BY <1>1, <2>1, <2>2, <2>3
<1> QED BY <1>4, <1>5

\* Proposals, votes and executions through SquadsClient implement the abstract
\* promise: what was proposed is carried out at most once, after Threshold members
\* called approveProposal for it.
THEOREM Implementation == Spec => ImplementsAgreement
<1>1. Init => Abstract!Init
  BY DEF Init, Abstract!Init, Executed, CreatedAt
<1>2. IInv /\ [Next]_vars => [Abstract!Next]_<<asked, Executed>>
  BY StepSimulation
<1> QED BY <1>1, <1>2, Invariance, PTL DEF Spec, ImplementsAgreement, Abstract!Spec
=============================================================================
