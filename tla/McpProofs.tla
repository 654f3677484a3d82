----------------------------- MODULE McpProofs ------------------------------
(***************************************************************************)
(* Theorems about one agent's session (module McpSession), for every       *)
(* policy and every limit.  Each part of the session's state, the project, *)
(* the proposals, the probes, the exports and the ledger, has an invariant *)
(* of its own; what a step may do to a part is a lemma about this part,    *)
(* and each tool is shown to do one of these things to every part.         *)
(***************************************************************************)
EXTENDS McpSession, SequenceTheorems, FiniteSetTheorems, TLAPS

-----------------------------------------------------------------------------
(* The invariants of the parts.                                            *)

\* The handshake, the launch and the world beside the session.
WorldGood ==
  /\ phase \in {"new", "initialized", "ready", "stoppingExports", "stoppingProbes", "closed"}
  /\ policy \in Policies /\ now \in 0..SessionLife /\ source \in 0..MaxChanges

\* The log has room for the revision, the history for the entries on both stacks.
EditorType(e) ==
  /\ e \in [revision : 0..MaxOperations, undo : 0..HistoryEntries, redo : 0..HistoryEntries]
  /\ e.undo + e.redo <= HistoryEntries

ProjectGood ==
  /\ EditorType(editor) /\ saved \in Nat
  /\ recovery \in [revision : Nat \cup {None}, error : BOOLEAN]
  /\ files \in [project : Nat, checkpoint : Nat \cup {None}]
  /\ HonestAboutFiles

\* Proposals have the IDs that were given out, and account for the bytes they hold.
Held(held, bytes, last) ==
  /\ last \in Nat /\ held \in [DOMAIN held -> Proposal] /\ DOMAIN held \subseteq 1..last
  /\ Cardinality(DOMAIN held) <= MaxProposals
  /\ bytes = Bytes(held) /\ bytes \in 0..MaxProposalBytes

ProposalsGood == Held(proposals, proposalBytes, nextProposal)

Running(jobs) == {i \in DOMAIN jobs : jobs[i].task = "running"}

ProbesOK(jobs) ==
  /\ jobs \in Seq(ProbeJob) /\ Len(jobs) <= MaxProbes
  /\ Cardinality(Running(jobs)) <= MaxActiveProbes

ProbesGood == ProbesOK(probes)

\* A job that runs is reported as running, one that is over as what it did to its file.
ReportedAs(job) ==
  /\ ~Over(job) => job.status = "running"
  /\ job.status # "running" => (job.status = "succeeded" <=> job.task = "installed")

Underway(jobs) == {i \in DOMAIN jobs : ~Over(jobs[i])}

ExportsOK(jobs) ==
  /\ jobs \in Seq(ExportJob) /\ Len(jobs) <= MaxExports
  /\ \A i \in DOMAIN jobs : jobs[i].id = i /\ ReportedAs(jobs[i])
  /\ Cardinality(Underway(jobs)) <= 1

ExportsGood == ExportsOK(exports) /\ output \in {Absent, Foreign} \cup DOMAIN exports

Memo == [request : Request, result : Result]

\* Every key has one answer: what was told or carried out under it is what is recorded,
\* and a success on record was carried out.
Consistent ==
  /\ \A key \in DOMAIN memos :
       /\ memos[key].request.key = key
       /\ memos[key].result.code = "ok" => memos[key] \in acted
  /\ \A a \in acted \cup told : a.request.key \in DOMAIN memos /\ memos[a.request.key] = a

LedgerGood ==
  /\ memos \in Seq(Memo) /\ Len(memos) <= policy.requests + 1
  /\ memoBytes \in 0..policy.memo /\ reserveUsed \in BOOLEAN
  /\ Consistent /\ SaveReserved

McpInv ==
  WorldGood /\ ProjectGood /\ ProposalsGood /\ ProbesGood /\ ExportsGood /\ LedgerGood

LEMMA LimitsTyped ==
  /\ MaxOperations \in Nat /\ HistoryEntries \in Nat /\ MaxProposals \in Nat
  /\ MaxSnapshot \in Nat /\ MaxProposalBytes \in Nat /\ MaxProbes \in Nat
  /\ MaxActiveProbes \in Nat /\ MaxExports \in Nat /\ ProposalLife \in Nat
  /\ SessionLife \in Nat /\ MaxChanges \in Nat /\ MaxPayload \in Nat \ {0}
  /\ None \notin Nat
BY SessionAssumption

LEMMA PartFinite ==
  ASSUME NEW n \in Nat, NEW S, S \subseteq 1..n
  PROVE  IsFiniteSet(S) /\ Cardinality(S) \in Nat
<1>1. 1 \in Int /\ n \in Int
  OBVIOUS
<1>2. IsFiniteSet(1..n)
  BY <1>1, FS_Interval, Zenon
<1> QED  BY <1>2, FS_Subset, FS_CardinalityType

LEMMA PolicyTyped ==
  ASSUME WorldGood
  PROVE  /\ policy.edit \in BOOLEAN /\ policy.save \in BOOLEAN /\ policy.recovery \in BOOLEAN
         /\ policy.requests \in Nat /\ policy.memo \in Nat /\ policy.memo >= 2
         /\ policy.tools \subseteq Tools /\ policy.saved \in 0..MaxOperations
<1>1. policy \in [edit : BOOLEAN, save : BOOLEAN, recovery : BOOLEAN,
                  requests : Nat, memo : Nat \ {0, 1}, tools : SUBSET Tools,
                  saved : 0..MaxOperations]
  BY SessionAssumption DEF WorldGood
<1>2. policy.edit \in BOOLEAN /\ policy.save \in BOOLEAN /\ policy.recovery \in BOOLEAN
  BY <1>1, Zenon
<1>3. /\ policy.requests \in Nat /\ policy.memo \in Nat \ {0, 1}
      /\ policy.tools \in SUBSET Tools /\ policy.saved \in 0..MaxOperations
  BY <1>1, Zenon
<1>4. policy.memo >= 2
  BY <1>3
<1> QED  BY <1>2, <1>3, <1>4, Zenon
-----------------------------------------------------------------------------
(* Counting bytes.                                                         *)

\* The bytes of one proposal, and of all.
Units(held, id) == {id} \X (1..held[id].bytes)
AllUnits(held) == UNION {Units(held, id) : id \in DOMAIN held}

LEMMA BytesAreUnits ==
  ASSUME NEW held
  PROVE  Bytes(held) = Cardinality(AllUnits(held))
<1>1. ASSUME NEW id \in DOMAIN held
      PROVE  {<<id, byte>> : byte \in 1..held[id].bytes} = Units(held, id)
  BY DEF Units
<1>2. {{<<id, byte>> : byte \in 1..held[id].bytes} : id \in DOMAIN held}
        = {Units(held, id) : id \in DOMAIN held}
  BY <1>1, Zenon
<1> QED  BY <1>2, Zenon DEF Bytes, AllUnits

LEMMA UnitsFinite ==
  ASSUME NEW last \in Nat, NEW held, held \in [DOMAIN held -> Proposal],
         DOMAIN held \subseteq 1..last
  PROVE  /\ IsFiniteSet(DOMAIN held) /\ Cardinality(DOMAIN held) \in Nat
         /\ IsFiniteSet(AllUnits(held)) /\ Bytes(held) \in Nat
         /\ \A id \in DOMAIN held : held[id].bytes \in Nat
<1>1. IsFiniteSet(DOMAIN held)
  BY FS_Interval, FS_Subset
<1>2. \A id \in DOMAIN held : held[id].bytes \in 1..MaxSnapshot
  BY DEF Proposal
<1>3. AllUnits(held) \subseteq (DOMAIN held) \X (1..MaxSnapshot)
  <2>1. SUFFICES ASSUME NEW id \in DOMAIN held, NEW u \in Units(held, id)
                 PROVE  u \in (DOMAIN held) \X (1..MaxSnapshot)
    BY Zenon DEF AllUnits
  <2>2. u \in {id} \X (1..held[id].bytes)
    BY <2>1, Zenon DEF Units
  <2>3. u[1] = id /\ u[2] \in 1..held[id].bytes /\ u = <<u[1], u[2]>>
    BY <2>2
  <2>4. u[2] \in 1..MaxSnapshot
    BY <1>2, <2>3, LimitsTyped
  <2> QED  BY <2>3, <2>4
<1>4. IsFiniteSet((DOMAIN held) \X (1..MaxSnapshot))
  <2>1. IsFiniteSet(1..MaxSnapshot)
    <3>1. 1 \in Int /\ MaxSnapshot \in Int
      BY LimitsTyped
    <3> QED  BY <3>1, FS_Interval, Zenon
  <2> QED  BY <1>1, <2>1, FS_Product, Zenon
<1>5. IsFiniteSet(AllUnits(held))
  BY <1>3, <1>4, FS_Subset
<1>6. Bytes(held) \in Nat
  BY <1>5, BytesAreUnits, FS_CardinalityType
<1>7. \A id \in DOMAIN held : held[id].bytes \in Nat
  BY <1>2, LimitsTyped
<1> QED  BY <1>1, <1>5, <1>6, <1>7, FS_CardinalityType

LEMMA UnitsOfOne ==
  ASSUME NEW held, NEW id, held[id].bytes \in Nat
  PROVE  IsFiniteSet(Units(held, id)) /\ Cardinality(Units(held, id)) = held[id].bytes
<1> DEFINE n == held[id].bytes
<1>0. n \in Nat
  OBVIOUS
<1> HIDE DEF n
<1>1. IsFiniteSet(1..n) /\ Cardinality(1..n) = n
  BY <1>0, FS_Interval
<1>2. IsFiniteSet({id}) /\ Cardinality({id}) = 1
  BY FS_Singleton
<1>3. IsFiniteSet(Units(held, id)) /\ Cardinality(Units(held, id)) = 1 * n
  <2>1. /\ IsFiniteSet({id} \X (1..n))
        /\ Cardinality({id} \X (1..n)) = Cardinality({id}) * Cardinality(1..n)
    BY <1>1, <1>2, FS_Product, Zenon
  <2> QED  BY <1>1, <1>2, <2>1 DEF Units, n
<1>4. 1 * n = n
  BY <1>0
<1> QED  BY <1>3, <1>4 DEF n

\* A proposal that is closed gives back its bytes.
LEMMA BytesDrop ==
  ASSUME NEW last \in Nat, NEW held, held \in [DOMAIN held -> Proposal],
         DOMAIN held \subseteq 1..last, NEW id \in DOMAIN held
  PROVE  Bytes(held) = Bytes(Restrict(held, DOMAIN held \ {id})) + held[id].bytes
<1> DEFINE rest == Restrict(held, DOMAIN held \ {id})
<1>1. DOMAIN rest = DOMAIN held \ {id} /\ \A k \in DOMAIN rest : rest[k] = held[k]
  BY DEF Restrict
<1> HIDE DEF rest
<1>2. /\ IsFiniteSet(AllUnits(held)) /\ held[id].bytes \in Nat
  BY UnitsFinite
<1>3. rest \in [DOMAIN rest -> Proposal] /\ DOMAIN rest \subseteq 1..last
  <2>1. rest = [k \in DOMAIN rest |-> rest[k]]
    BY Zenon DEF rest, Restrict
  <2>2. \A k \in DOMAIN rest : rest[k] \in Proposal
    BY <1>1
  <2> QED  BY <1>1, <2>1, <2>2
<1>4. IsFiniteSet(AllUnits(rest)) /\ Bytes(rest) \in Nat
  BY <1>3, UnitsFinite
<1>5. \A k \in DOMAIN rest : Units(rest, k) = Units(held, k)
  BY <1>1 DEF Units
<1>6. AllUnits(held) = AllUnits(rest) \cup Units(held, id)
  <2>1. ASSUME NEW u \in AllUnits(held) PROVE u \in AllUnits(rest) \cup Units(held, id)
    <3>1. PICK k \in DOMAIN held : u \in Units(held, k)
      BY Zenon DEF AllUnits
    <3>2. CASE k = id
      BY <3>1, <3>2, Zenon
    <3>3. CASE k # id
      BY <1>1, <1>5, <3>1, <3>3, Zenon DEF AllUnits
    <3> QED  BY <3>2, <3>3
  <2>2. ASSUME NEW u \in AllUnits(rest) PROVE u \in AllUnits(held)
    <3>1. PICK k \in DOMAIN rest : u \in Units(rest, k)
      BY Zenon DEF AllUnits
    <3> QED  BY <1>1, <1>5, <3>1, Zenon DEF AllUnits
  <2>3. Units(held, id) \subseteq AllUnits(held)
    BY Zenon DEF AllUnits
  <2> QED  BY <2>1, <2>2, <2>3, Zenon
<1>7. AllUnits(rest) \cap Units(held, id) = {}
  <2>1. ASSUME NEW k \in DOMAIN rest, NEW u \in Units(rest, k), u \in Units(held, id)
        PROVE  FALSE
    <3>1. u[1] = k /\ u[1] = id
      BY <2>1 DEF Units
    <3> QED  BY <1>1, <3>1
  <2> QED  BY <2>1, Zenon DEF AllUnits
<1>8. /\ IsFiniteSet(Units(held, id)) /\ Cardinality(Units(held, id)) = held[id].bytes
  BY <1>2, UnitsOfOne
<1>9. Cardinality(AllUnits(held)) = Cardinality(AllUnits(rest)) + Cardinality(Units(held, id))
  <2>1. Cardinality(AllUnits(held))
          = Cardinality(AllUnits(rest)) + Cardinality(Units(held, id)) - Cardinality({})
    BY <1>4, <1>6, <1>7, <1>8, FS_Union
  <2>2. Cardinality({}) = 0
    BY FS_EmptySet
  <2>3. Cardinality(AllUnits(rest)) \in Nat /\ Cardinality(Units(held, id)) \in Nat
    BY <1>2, <1>4, <1>8, FS_CardinalityType
  <2> QED  BY <2>1, <2>2, <2>3
<1> QED  BY <1>8, <1>9, BytesAreUnits DEF rest

\* Fewer proposals hold no more.
LEMMA BytesOfFewer ==
  ASSUME NEW last \in Nat, NEW held, held \in [DOMAIN held -> Proposal],
         DOMAIN held \subseteq 1..last, NEW S \in SUBSET DOMAIN held
  PROVE  LET kept == Restrict(held, S)
         IN  /\ DOMAIN kept = S /\ \A id \in S : kept[id] = held[id]
             /\ kept \in [DOMAIN kept -> Proposal] /\ S \subseteq 1..last
             /\ Bytes(kept) \in Nat /\ Bytes(kept) <= Bytes(held)
             /\ Cardinality(S) \in Nat /\ Cardinality(S) <= Cardinality(DOMAIN held)
<1> DEFINE kept == Restrict(held, S)
<1>1. DOMAIN kept = S /\ \A k \in S : kept[k] = held[k]
  BY DEF Restrict
<1>2. kept \in [DOMAIN kept -> Proposal]
  BY <1>1 DEF Restrict
<1> HIDE DEF kept
<1>3. /\ IsFiniteSet(AllUnits(held)) /\ IsFiniteSet(AllUnits(kept)) /\ Bytes(kept) \in Nat
      /\ IsFiniteSet(DOMAIN held) /\ IsFiniteSet(DOMAIN kept)
  BY <1>1, <1>2, UnitsFinite
<1>4. \A k \in S : Units(kept, k) = Units(held, k)
  BY <1>1 DEF Units
<1>5. AllUnits(kept) \subseteq AllUnits(held)
  BY <1>1, <1>4, Zenon DEF AllUnits
<1>6. Bytes(kept) <= Bytes(held)
  BY <1>3, <1>5, FS_Subset, BytesAreUnits
<1>7. Cardinality(S) \in Nat /\ Cardinality(S) <= Cardinality(DOMAIN held)
  BY <1>1, <1>3, FS_Subset, FS_CardinalityType
<1> QED  BY <1>1, <1>2, <1>3, <1>6, <1>7 DEF kept

\* One more proposal adds its bytes.
LEMMA BytesPut ==
  ASSUME NEW last \in Nat, NEW held, held \in [DOMAIN held -> Proposal],
         DOMAIN held \subseteq 1..last, NEW p \in Proposal
  PROVE  LET more == Put(held, last + 1, p)
         IN  /\ DOMAIN more = DOMAIN held \cup {last + 1}
             /\ more \in [DOMAIN more -> Proposal] /\ DOMAIN more \subseteq 1..(last + 1)
             /\ Bytes(more) = Bytes(held) + p.bytes
             /\ Cardinality(DOMAIN more) = Cardinality(DOMAIN held) + 1
<1> DEFINE id == last + 1
           more == Put(held, id, p)
<1>1. /\ DOMAIN more = DOMAIN held \cup {id} /\ more[id] = p
      /\ \A k \in DOMAIN held : more[k] = held[k]
  BY DEF Put
<1>2. more \in [DOMAIN more -> Proposal]
  BY DEF Put
<1>3. DOMAIN more \subseteq 1..id /\ id \in Nat /\ id \notin DOMAIN held
  BY <1>1
<1>4. Restrict(more, DOMAIN more \ {id}) = held
  <2>1. DOMAIN more \ {id} = DOMAIN held
    BY <1>1, <1>3
  <2> HIDE DEF id, more
  <2>2. held = [k \in DOMAIN held |-> held[k]]
    BY Zenon
  <2>3. Restrict(more, DOMAIN held) = [k \in DOMAIN held |-> more[k]]
    BY Zenon DEF Restrict
  <2> QED  BY <1>1, <2>1, <2>2, <2>3
<1> HIDE DEF more, id
<1>5. Bytes(more) = Bytes(held) + more[id].bytes
  <2>1. id \in DOMAIN more
    BY <1>1
  <2> QED  BY <1>2, <1>3, <1>4, <2>1, BytesDrop
<1>6. Cardinality(DOMAIN more) = Cardinality(DOMAIN held) + 1
  BY <1>1, <1>3, UnitsFinite, FS_AddElement
<1> QED  BY <1>1, <1>2, <1>3, <1>5, <1>6 DEF more, id
-----------------------------------------------------------------------------
(* What a step may do to the proposals.                                    *)

LEMMA LiveHeld ==
  ASSUME ProposalsGood
  PROVE  Held(Live, LiveBytes, nextProposal)
<1> DEFINE S == {id \in DOMAIN proposals : ~Expired(proposals[id])}
<1>1. Live = Restrict(proposals, S)
  BY DEF Live, RestrictValues
<1>2. S \in SUBSET DOMAIN proposals
  OBVIOUS
<1> HIDE DEF S
<1>3. /\ nextProposal \in Nat /\ proposals \in [DOMAIN proposals -> Proposal]
      /\ DOMAIN proposals \subseteq 1..nextProposal
      /\ Cardinality(DOMAIN proposals) <= MaxProposals
      /\ proposalBytes = Bytes(proposals) /\ proposalBytes \in 0..MaxProposalBytes
  BY DEF ProposalsGood, Held
<1>4. /\ DOMAIN Live = S /\ Live \in [DOMAIN Live -> Proposal]
      /\ S \subseteq 1..nextProposal
      /\ Bytes(Live) \in Nat /\ Bytes(Live) <= Bytes(proposals)
      /\ Cardinality(S) \in Nat /\ Cardinality(S) <= Cardinality(DOMAIN proposals)
  BY <1>1, <1>2, <1>3, BytesOfFewer
<1>5. LiveBytes = Bytes(Live) /\ LiveBytes \in 0..MaxProposalBytes
  BY <1>3, <1>4, LimitsTyped DEF LiveBytes
<1>6. Cardinality(DOMAIN Live) <= MaxProposals
  <2>1. Cardinality(DOMAIN proposals) \in Nat
    BY <1>3, UnitsFinite
  <2> QED  BY <1>3, <1>4, <2>1, LimitsTyped
<1> QED  BY <1>3, <1>4, <1>5, <1>6 DEF Held

LEMMA ProposalsKept ==
  ASSUME ProposalsGood, KeepsProposals
  PROVE  ProposalsGood'
<1>1. proposals' = Live /\ proposalBytes' = LiveBytes /\ nextProposal' = nextProposal
  BY DEF KeepsProposals
<1>2. Held(proposals', proposalBytes', nextProposal')
  BY <1>1, LiveHeld, Zenon
<1> QED  BY <1>2 DEF ProposalsGood

LEMMA ProposalsUntouched ==
  ASSUME ProposalsGood, UNCHANGED proposalVars
  PROVE  ProposalsGood'
<1>1. Held(proposals', proposalBytes', nextProposal')
  BY DEF proposalVars, ProposalsGood
<1> QED  BY <1>1 DEF ProposalsGood

LEMMA ProposalTaken ==
  ASSUME ProposalsGood, NEW r, r.id \in DOMAIN Live, TakesProposal(r)
  PROVE  ProposalsGood'
<1>1. Held(Live, LiveBytes, nextProposal)
  BY LiveHeld
<1>2. /\ proposals' = Restrict(Live, DOMAIN Live \ {r.id})
      /\ proposalBytes' = LiveBytes - Live[r.id].bytes /\ nextProposal' = nextProposal
  BY DEF TakesProposal
<1> DEFINE held == Live
           kept == Restrict(held, DOMAIN held \ {r.id})
<1> HIDE DEF held
<1>3. /\ nextProposal \in Nat /\ held \in [DOMAIN held -> Proposal]
      /\ DOMAIN held \subseteq 1..nextProposal /\ Cardinality(DOMAIN held) <= MaxProposals
      /\ LiveBytes = Bytes(held) /\ LiveBytes \in 0..MaxProposalBytes
      /\ r.id \in DOMAIN held
  BY <1>1 DEF Held, held
<1>4. (DOMAIN held \ {r.id}) \in SUBSET DOMAIN held
  OBVIOUS
<1>5. /\ DOMAIN kept = DOMAIN held \ {r.id} /\ kept \in [DOMAIN kept -> Proposal]
      /\ DOMAIN kept \subseteq 1..nextProposal /\ Bytes(kept) \in Nat
      /\ Cardinality(DOMAIN kept) \in Nat
      /\ Cardinality(DOMAIN kept) <= Cardinality(DOMAIN held)
  BY <1>3, <1>4, BytesOfFewer
<1>6. Bytes(held) = Bytes(kept) + held[r.id].bytes
  BY <1>3, BytesDrop
<1>7. held[r.id].bytes \in Nat /\ Cardinality(DOMAIN held) \in Nat
  BY <1>3, UnitsFinite
<1> HIDE DEF kept
<1>8. LiveBytes - held[r.id].bytes = Bytes(kept) /\ Bytes(kept) \in 0..MaxProposalBytes
  BY <1>3, <1>5, <1>6, <1>7, LimitsTyped
<1>9. Cardinality(DOMAIN kept) <= MaxProposals
  BY <1>3, <1>5, <1>7, LimitsTyped
<1>10. Held(kept, Bytes(kept), nextProposal)
  BY <1>3, <1>5, <1>8, <1>9 DEF Held
<1>11. proposals' = kept /\ proposalBytes' = Bytes(kept)
  BY <1>2, <1>8 DEF kept, held
<1>12. Held(proposals', proposalBytes', nextProposal')
  BY <1>2, <1>10, <1>11, Zenon
<1> QED  BY <1>12 DEF ProposalsGood

LEMMA ProposalAdded ==
  ASSUME ProposalsGood, NEW p \in Proposal, HasRoom, LiveBytes + p.bytes <= MaxProposalBytes,
         nextProposal' = nextProposal + 1, proposals' = Put(Live, nextProposal', p),
         proposalBytes' = LiveBytes + p.bytes
  PROVE  ProposalsGood'
<1>1. Held(Live, LiveBytes, nextProposal)
  BY LiveHeld
<1> DEFINE held == Live
           more == Put(held, nextProposal + 1, p)
<1> HIDE DEF held
<1>2. /\ nextProposal \in Nat /\ held \in [DOMAIN held -> Proposal]
      /\ DOMAIN held \subseteq 1..nextProposal
      /\ LiveBytes = Bytes(held) /\ LiveBytes \in 0..MaxProposalBytes
      /\ Cardinality(DOMAIN held) < MaxProposals
  BY <1>1 DEF Held, held, HasRoom
<1>3. /\ more \in [DOMAIN more -> Proposal]
      /\ DOMAIN more \subseteq 1..(nextProposal + 1)
      /\ Bytes(more) = Bytes(held) + p.bytes
      /\ Cardinality(DOMAIN more) = Cardinality(DOMAIN held) + 1
  BY <1>2, BytesPut
<1>4. Cardinality(DOMAIN held) \in Nat
  BY <1>2, UnitsFinite
<1>5. p.bytes \in Nat
  BY LimitsTyped DEF Proposal
<1>6. proposals' = more
  BY Zenon DEF held
<1> HIDE DEF more
<1>7. Cardinality(DOMAIN more) <= MaxProposals
  BY <1>2, <1>3, <1>4, LimitsTyped
<1>8. LiveBytes + p.bytes = Bytes(more) /\ Bytes(more) \in 0..MaxProposalBytes
  BY <1>2, <1>3, <1>5, LimitsTyped
<1>9. Held(more, Bytes(more), nextProposal + 1)
  BY <1>2, <1>3, <1>7, <1>8 DEF Held
<1>10. Held(proposals', proposalBytes', nextProposal')
  BY <1>6, <1>8, <1>9, Zenon
<1> QED  BY <1>10 DEF ProposalsGood

\* An ID that was given out for an answer that is too large is not used again.
LEMMA ProposalIdLost ==
  ASSUME ProposalsGood, nextProposal' = nextProposal + 1, proposals' = Live,
         proposalBytes' = LiveBytes
  PROVE  ProposalsGood'
<1>1. Held(Live, LiveBytes, nextProposal)
  BY LiveHeld
<1> DEFINE held == Live
<1> HIDE DEF held
<1>2. Held(held, LiveBytes, nextProposal + 1)
  <2>1. Held(held, LiveBytes, nextProposal)
    BY <1>1 DEF held
  <2>2. nextProposal + 1 \in Nat /\ DOMAIN held \subseteq 1..(nextProposal + 1)
    BY <2>1 DEF Held
  <2> QED  BY <2>1, <2>2, Zenon DEF Held
<1>3. Held(proposals', proposalBytes', nextProposal')
  BY <1>2, Zenon DEF held
<1> QED  BY <1>3 DEF ProposalsGood
-----------------------------------------------------------------------------
(* What a step may do to the probes.                                       *)

\* Taking a probe's result, or closing a probe whose time is over, is not the end of
\* its process, and imports nothing.
LEMMA SweptJob ==
  ASSUME NEW job \in ProbeJob
  PROVE  /\ SweptProbe(job) \in ProbeJob
         /\ SweptProbe(job).task = "running" <=> job.task = "running"
         /\ SweptProbe(job).base = job.base /\ SweptProbe(job).version = job.version
         /\ SweptProbe(job).relink = job.relink
         /\ SweptProbe(job).state = "committed" => job.state = "committed"
         /\ SweptProbe(job).state = "ready" => ~Expired(job)
<1> DEFINE fresh == RefreshedProbe(job)
<1>1. /\ fresh \in ProbeJob /\ (fresh.task = "running" <=> job.task = "running")
      /\ fresh.base = job.base /\ fresh.version = job.version /\ fresh.relink = job.relink
      /\ fresh.state = "committed" => job.state = "committed"
  BY DEF RefreshedProbe, ProbeJob, Final
<1> HIDE DEF fresh
<1>2. CASE Expired(job) /\ fresh.state \notin Final
  <2>1. SweptProbe(job) = [fresh EXCEPT !.stop = TRUE, !.state = "stale"]
    BY <1>2 DEF SweptProbe, Stopped, fresh
  <2> QED  BY <1>1, <2>1 DEF ProbeJob, Final
<1>3. CASE ~(Expired(job) /\ fresh.state \notin Final)
  <2>1. SweptProbe(job) = fresh
    BY <1>3, Zenon DEF SweptProbe, fresh
  <2>2. fresh.state = "ready" => ~Expired(job)
    BY <1>3 DEF Final
  <2> QED  BY <1>1, <2>1, <2>2, Zenon
<1> QED  BY <1>2, <1>3

\* The same jobs, each still running or not as it was.
SameRuns(old, new) ==
  /\ new \in Seq(ProbeJob) /\ Len(new) = Len(old)
  /\ \A i \in DOMAIN new : new[i].task = "running" => old[i].task = "running"

LEMMA NoMoreRuns ==
  ASSUME NEW old, NEW new, ProbesOK(old), SameRuns(old, new)
  PROVE  ProbesOK(new)
<1>1. /\ old \in Seq(ProbeJob) /\ new \in Seq(ProbeJob) /\ Len(new) = Len(old)
      /\ Len(old) <= MaxProbes
  BY DEF ProbesOK, SameRuns
<1>2. DOMAIN old = 1..Len(old) /\ DOMAIN new = 1..Len(old) /\ Len(old) \in Nat
  BY <1>1, LenProperties
<1>3. Running(new) \subseteq Running(old)
  BY <1>2 DEF Running, SameRuns
<1>4. IsFiniteSet(Running(old))
  <2>1. Running(old) \subseteq 1..Len(old)
    BY <1>2 DEF Running
  <2> QED  BY <1>2, <2>1, PartFinite
<1>5. /\ Cardinality(Running(new)) <= Cardinality(Running(old))
      /\ Cardinality(Running(new)) \in Nat /\ Cardinality(Running(old)) \in Nat
  BY <1>3, <1>4, FS_Subset, FS_CardinalityType
<1>6. Cardinality(Running(new)) <= MaxActiveProbes
  BY <1>5, LimitsTyped DEF ProbesOK
<1> QED  BY <1>1, <1>6 DEF ProbesOK

LEMMA SweptJobs ==
  ASSUME ProbesGood
  PROVE  /\ Swept \in Seq(ProbeJob) /\ Len(Swept) = Len(probes) /\ Len(probes) \in Nat
         /\ DOMAIN Swept = 1..Len(probes) /\ DOMAIN probes = 1..Len(probes)
         /\ \A i \in 1..Len(probes) :
              Swept[i] = SweptProbe(probes[i]) /\ probes[i] \in ProbeJob
         /\ SameRuns(probes, Swept)
<1>1. probes \in Seq(ProbeJob)
  BY DEF ProbesGood, ProbesOK
<1>2. /\ DOMAIN probes = 1..Len(probes) /\ Len(probes) \in Nat
      /\ \A i \in 1..Len(probes) : probes[i] \in ProbeJob
  BY <1>1, LenProperties, ElementOfSeq
<1>3. Swept = [i \in 1..Len(probes) |-> SweptProbe(probes[i])]
  BY <1>2 DEF Swept
<1>4. \A i \in 1..Len(probes) : SweptProbe(probes[i]) \in ProbeJob
  BY <1>2, SweptJob
<1>5. /\ Swept \in Seq(ProbeJob) /\ DOMAIN Swept = 1..Len(probes)
      /\ \A i \in 1..Len(probes) : Swept[i] = SweptProbe(probes[i])
  <2> DEFINE n == Len(probes)
             jobs == [i \in 1..n |-> SweptProbe(probes[i])]
  <2>1. jobs \in [1..n -> ProbeJob] /\ n \in Nat
    BY <1>2, <1>4
  <2>2. jobs \in Seq(ProbeJob)
    BY <2>1, SeqDef
  <2> QED  BY <1>3, <2>1, <2>2
<1>6. Len(Swept) = Len(probes)
  BY <1>2, <1>5, LenProperties
<1>7. SameRuns(probes, Swept)
  BY <1>2, <1>5, <1>6, SweptJob DEF SameRuns
<1> QED  BY <1>2, <1>5, <1>6, <1>7

\* What ImportsWhatWasProbed says of a step.
Imported ==
  \A i \in DOMAIN probes :
    (probes[i].state # "committed" /\ probes'[i].state = "committed") =>
      /\ probes[i].base = editor.revision
      /\ probes[i].version = source
      /\ ~Expired(probes[i])

LEMMA ProbesKept ==
  ASSUME ProbesGood, KeepsProbes
  PROVE  ProbesGood' /\ Imported
<1>1. probes' = Swept
  BY DEF KeepsProbes
<1>2. ProbesOK(Swept)
  BY SweptJobs, NoMoreRuns DEF ProbesGood
<1>3. ProbesOK(probes')
  BY <1>1, <1>2, Zenon
<1>4. Imported
  BY <1>1, SweptJobs, SweptJob DEF Imported
<1> QED  BY <1>3, <1>4 DEF ProbesGood

LEMMA ProbesUntouched ==
  ASSUME ProbesGood, UNCHANGED probes
  PROVE  ProbesGood' /\ Imported
<1>1. ProbesOK(probes')
  BY Zenon DEF ProbesGood
<1>2. Imported
  BY DEF Imported
<1> QED  BY <1>1, <1>2 DEF ProbesGood

\* One job, of those a call found, changes without starting anew.
LEMMA ProbeChanged ==
  ASSUME ProbesGood, NEW i \in DOMAIN probes, NEW job \in ProbeJob,
         job.task = Swept[i].task, probes' = [Swept EXCEPT ![i] = job],
         job.state = "committed" =>
           /\ probes[i].base = editor.revision
           /\ probes[i].version = source
           /\ ~Expired(probes[i])
  PROVE  ProbesGood' /\ Imported
<1>1. /\ Swept \in Seq(ProbeJob) /\ Len(Swept) = Len(probes) /\ Len(probes) \in Nat
      /\ DOMAIN probes = 1..Len(probes)
      /\ \A k \in 1..Len(probes) : Swept[k] = SweptProbe(probes[k]) /\ probes[k] \in ProbeJob
      /\ SameRuns(probes, Swept)
  BY SweptJobs
<1> DEFINE jobs == [Swept EXCEPT ![i] = job]
<1>2. /\ jobs \in Seq(ProbeJob) /\ Len(jobs) = Len(probes)
      /\ \A k \in 1..Len(probes) : jobs[k] = IF k = i THEN job ELSE Swept[k]
  BY <1>1, ExceptSeq
<1> HIDE DEF jobs
<1>3. DOMAIN jobs = 1..Len(probes)
  BY <1>2, LenProperties
<1>4. DOMAIN Swept = 1..Len(probes)
  BY <1>1, LenProperties
<1>5. SameRuns(probes, jobs)
  BY <1>1, <1>2, <1>3, <1>4 DEF SameRuns
<1>6. ProbesOK(jobs)
  BY <1>5, NoMoreRuns DEF ProbesGood
<1>7. probes' = jobs
  BY DEF jobs
<1>8. Imported
  <2>1. SUFFICES ASSUME NEW k \in DOMAIN probes, probes[k].state # "committed",
                        jobs[k].state = "committed"
                 PROVE  /\ probes[k].base = editor.revision
                        /\ probes[k].version = source
                        /\ ~Expired(probes[k])
    BY <1>7, Zenon DEF Imported
  <2>2. CASE k = i
    BY <1>1, <1>2, <2>1, <2>2
  <2>3. CASE k # i
    <3>1. jobs[k] = SweptProbe(probes[k]) /\ probes[k] \in ProbeJob
      BY <1>1, <1>2, <2>3
    <3> QED  BY <2>1, <3>1, SweptJob
  <2> QED  BY <2>2, <2>3
<1>9. ProbesOK(probes')
  BY <1>6, <1>7, Zenon
<1> QED  BY <1>8, <1>9 DEF ProbesGood

\* One more probe runs if there is room for it.
LEMMA ProbeStarted ==
  ASSUME ProbesGood, NEW job \in ProbeJob, Len(probes) < MaxProbes,
         Cardinality(Active) < MaxActiveProbes, probes' = Append(Swept, job)
  PROVE  ProbesGood' /\ Imported
<1>1. /\ Swept \in Seq(ProbeJob) /\ Len(Swept) = Len(probes) /\ Len(probes) \in Nat
      /\ DOMAIN probes = 1..Len(probes) /\ DOMAIN Swept = 1..Len(probes)
      /\ \A k \in 1..Len(probes) : Swept[k] = SweptProbe(probes[k]) /\ probes[k] \in ProbeJob
      /\ SameRuns(probes, Swept)
  BY SweptJobs
<1> DEFINE n == Len(probes)
           jobs == Append(Swept, job)
<1>2. /\ jobs \in Seq(ProbeJob) /\ Len(jobs) = n + 1 /\ jobs[n + 1] = job
      /\ \A k \in 1..n : jobs[k] = Swept[k]
  BY <1>1, AppendProperties
<1> HIDE DEF jobs
<1>3. DOMAIN jobs = 1..(n + 1)
  BY <1>2, LenProperties
<1>4. Running(jobs) \subseteq Active \cup {n + 1}
  BY <1>1, <1>2, <1>3 DEF Running, Active, SameRuns
<1>5. IsFiniteSet(Active)
  <2>1. Active \subseteq 1..n
    BY <1>1 DEF Active
  <2> QED  BY <1>1, <2>1, PartFinite
<1>6. /\ IsFiniteSet(Active \cup {n + 1}) /\ Cardinality(Active) \in Nat
      /\ Cardinality(Active \cup {n + 1}) <= Cardinality(Active) + 1
      /\ Cardinality(Active \cup {n + 1}) \in Nat
  <2>1. Cardinality(Active) \in Nat
    BY <1>5, FS_CardinalityType
  <2>2. /\ IsFiniteSet(Active \cup {n + 1})
        /\ Cardinality(Active \cup {n + 1})
             = IF n + 1 \in Active THEN Cardinality(Active) ELSE Cardinality(Active) + 1
    BY <1>5, FS_AddElement, Zenon
  <2> QED  BY <2>1, <2>2
<1>7. Cardinality(Running(jobs)) <= MaxActiveProbes
  <2>1. /\ Cardinality(Running(jobs)) <= Cardinality(Active \cup {n + 1})
        /\ Cardinality(Running(jobs)) \in Nat
    BY <1>4, <1>6, FS_Subset, FS_CardinalityType
  <2> QED  BY <1>6, <2>1, LimitsTyped
<1>8. Len(jobs) <= MaxProbes
  BY <1>1, <1>2, LimitsTyped
<1>9. ProbesOK(jobs)
  BY <1>2, <1>7, <1>8 DEF ProbesOK
<1>10. probes' = jobs
  BY DEF jobs
<1>11. Imported
  BY <1>1, <1>2, <1>10, SweptJob DEF Imported
<1>12. ProbesOK(probes')
  BY <1>9, <1>10, Zenon
<1> QED  BY <1>11, <1>12 DEF ProbesGood
-----------------------------------------------------------------------------
(* What a step may do to the exports and to the file they install.         *)

LEMMA RefreshedJob ==
  ASSUME NEW job \in ExportJob, ReportedAs(job)
  PROVE  /\ RefreshedExport(job) \in ExportJob /\ RefreshedExport(job).id = job.id
         /\ RefreshedExport(job).task = job.task /\ ReportedAs(RefreshedExport(job))
         /\ RefreshedExport(job).status # "running" => Over(job)
<1>1. CASE ~Over(job) \/ job.status # "running"
  <2>1. RefreshedExport(job) = job
    BY <1>1, Zenon DEF RefreshedExport
  <2> QED  BY <2>1, Zenon DEF ReportedAs
<1>2. CASE Over(job) /\ job.status = "running"
  <2>1. RefreshedExport(job) = [job EXCEPT !.status = StatusOf(job)]
    BY <1>2, Zenon DEF RefreshedExport
  <2>2. StatusOf(job) = IF job.task = "installed" THEN "succeeded" ELSE job.task
    BY DEF StatusOf
  <2>3. job.task \in {"installed", "failed", "cancelled"}
    BY <1>2 DEF Over, OverTasks
  <2> QED  BY <1>2, <2>1, <2>2, <2>3 DEF ReportedAs, Over, OverTasks, ExportJob
<1> QED  BY <1>1, <1>2

\* The same jobs, none of which starts again.
SameWork(old, new) ==
  /\ new \in Seq(ExportJob) /\ Len(new) = Len(old)
  /\ \A i \in DOMAIN new :
       /\ new[i].id = i /\ ReportedAs(new[i])
       /\ ~Over(new[i]) => ~Over(old[i])

LEMMA ExportsTyped ==
  ASSUME NEW jobs, ExportsOK(jobs)
  PROVE  /\ jobs \in Seq(ExportJob) /\ Len(jobs) \in Nat /\ DOMAIN jobs = 1..Len(jobs)
         /\ \A i \in 1..Len(jobs) :
              jobs[i] \in ExportJob /\ jobs[i].id = i /\ ReportedAs(jobs[i])
         /\ IsFiniteSet(Underway(jobs)) /\ Cardinality(Underway(jobs)) \in Nat
<1>1. jobs \in Seq(ExportJob)
  BY DEF ExportsOK
<1>2. Len(jobs) \in Nat /\ DOMAIN jobs = 1..Len(jobs)
  BY <1>1, LenProperties
<1>3. \A i \in 1..Len(jobs) : jobs[i] \in ExportJob
  BY <1>1, ElementOfSeq
<1>4. Underway(jobs) \subseteq 1..Len(jobs)
  BY <1>2 DEF Underway
<1>5. IsFiniteSet(Underway(jobs)) /\ Cardinality(Underway(jobs)) \in Nat
  BY <1>2, <1>4, PartFinite
<1> QED  BY <1>1, <1>2, <1>3, <1>5 DEF ExportsOK

LEMMA NoMoreWork ==
  ASSUME NEW old, NEW new, ExportsOK(old), SameWork(old, new)
  PROVE  ExportsOK(new) /\ DOMAIN new = DOMAIN old
<1>1. /\ new \in Seq(ExportJob) /\ Len(new) = Len(old) /\ Len(old) <= MaxExports
  BY DEF ExportsOK, SameWork
<1>2. DOMAIN old = 1..Len(old) /\ DOMAIN new = 1..Len(old)
  BY <1>1, LenProperties, ExportsTyped
<1>3. Underway(new) \subseteq Underway(old)
  BY <1>2 DEF Underway, SameWork
<1>4. IsFiniteSet(Underway(old)) /\ Cardinality(Underway(old)) \in Nat
  BY ExportsTyped
<1>5. /\ Cardinality(Underway(new)) <= Cardinality(Underway(old))
      /\ Cardinality(Underway(new)) \in Nat
  BY <1>3, <1>4, FS_Subset, FS_CardinalityType
<1>6. Cardinality(Underway(old)) <= 1
  BY DEF ExportsOK
<1>7. Cardinality(Underway(new)) <= 1
  BY <1>4, <1>5, <1>6
<1>8. \A i \in DOMAIN new : new[i].id = i /\ ReportedAs(new[i])
  BY DEF SameWork
<1> QED  BY <1>1, <1>2, <1>7, <1>8 DEF ExportsOK

LEMMA SameFileThere ==
  ASSUME ExportsGood, ExportsOK(exports'), UNCHANGED output,
         DOMAIN exports \subseteq DOMAIN exports'
  PROVE  ExportsGood'
BY DEF ExportsGood

LEMMA ExportsUntouched ==
  ASSUME ExportsGood, UNCHANGED <<exports, output>>
  PROVE  ExportsGood'
<1>1. ExportsOK(exports')
  BY DEF ExportsGood
<1> QED  BY <1>1, SameFileThere

\* One job moves on, or is told to stop, or is looked at.
LEMMA JobChanged ==
  ASSUME ExportsGood, NEW i \in DOMAIN exports, NEW job \in ExportJob, job.id = i,
         ReportedAs(job), ~Over(job) => ~Over(exports[i]),
         exports' = [exports EXCEPT ![i] = job]
  PROVE  ExportsOK(exports') /\ DOMAIN exports' = DOMAIN exports
<1>1. ExportsOK(exports)
  BY DEF ExportsGood
<1>2. /\ exports \in Seq(ExportJob) /\ Len(exports) \in Nat
      /\ DOMAIN exports = 1..Len(exports)
      /\ \A k \in 1..Len(exports) : exports[k].id = k /\ ReportedAs(exports[k])
  BY <1>1, ExportsTyped
<1>3. /\ exports' \in Seq(ExportJob) /\ Len(exports') = Len(exports)
      /\ \A k \in 1..Len(exports) : exports'[k] = IF k = i THEN job ELSE exports[k]
  <2> DEFINE jobs == [exports EXCEPT ![i] = job]
  <2>1. /\ jobs \in Seq(ExportJob) /\ Len(jobs) = Len(exports)
        /\ \A k \in 1..Len(exports) : jobs[k] = IF k = i THEN job ELSE exports[k]
    BY <1>2, ExceptSeq
  <2> QED  BY <2>1
<1>4. DOMAIN exports' = 1..Len(exports)
  BY <1>3, LenProperties
<1>5. SameWork(exports, exports')
  BY <1>2, <1>3, <1>4 DEF SameWork
<1> QED  BY <1>1, <1>5, NoMoreWork

\* Every job is looked at, or told to stop.
LEMMA AllRefreshed ==
  ASSUME ExportsGood
  PROVE  /\ ExportsOK(RefreshedExports) /\ DOMAIN RefreshedExports = DOMAIN exports
         /\ Len(RefreshedExports) = Len(exports)
         /\ \A i \in DOMAIN exports : RefreshedExports[i] = RefreshedExport(exports[i])
<1>1. ExportsOK(exports)
  BY DEF ExportsGood
<1>2. /\ Len(exports) \in Nat /\ DOMAIN exports = 1..Len(exports)
      /\ \A k \in 1..Len(exports) :
           exports[k] \in ExportJob /\ exports[k].id = k /\ ReportedAs(exports[k])
  BY <1>1, ExportsTyped
<1> DEFINE n == Len(exports)
           jobs == [i \in 1..n |-> RefreshedExport(exports[i])]
<1>3. RefreshedExports = jobs
  BY <1>2 DEF RefreshedExports
<1>4. jobs \in [1..n -> ExportJob] /\ n \in Nat
  BY <1>2, RefreshedJob
<1>5. jobs \in Seq(ExportJob)
  BY <1>4, SeqDef
<1>6. DOMAIN jobs = 1..n /\ \A k \in 1..n : jobs[k] = RefreshedExport(exports[k])
  OBVIOUS
<1> HIDE DEF jobs
<1>7. Len(jobs) = n
  BY <1>4, <1>5, <1>6, LenProperties
<1>8. \A k \in 1..n : jobs[k].id = k /\ ReportedAs(jobs[k]) /\ jobs[k].task = exports[k].task
  BY <1>2, <1>6, RefreshedJob
<1>9. SameWork(exports, jobs)
  BY <1>5, <1>6, <1>7, <1>8 DEF SameWork, Over
<1>10. ExportsOK(jobs)
  BY <1>1, <1>9, NoMoreWork
<1> QED  BY <1>2, <1>3, <1>6, <1>7, <1>10

LEMMA AllStopped ==
  ASSUME ExportsGood, exports' = [i \in DOMAIN exports |-> [exports[i] EXCEPT !.stop = TRUE]]
  PROVE  ExportsOK(exports') /\ DOMAIN exports' = DOMAIN exports
<1>1. ExportsOK(exports)
  BY DEF ExportsGood
<1>2. /\ Len(exports) \in Nat /\ DOMAIN exports = 1..Len(exports)
      /\ \A k \in 1..Len(exports) :
           exports[k] \in ExportJob /\ exports[k].id = k /\ ReportedAs(exports[k])
  BY <1>1, ExportsTyped
<1>3. ASSUME NEW k \in 1..Len(exports)
      PROVE  LET job == [exports[k] EXCEPT !.stop = TRUE]
             IN  /\ job \in ExportJob /\ job.id = k /\ ReportedAs(job)
                 /\ job.task = exports[k].task
  <2> DEFINE job == [exports[k] EXCEPT !.stop = TRUE]
  <2>1. exports[k] \in ExportJob /\ exports[k].id = k /\ ReportedAs(exports[k])
    BY <1>2, <1>3
  <2>2. /\ job \in ExportJob /\ job.id = exports[k].id /\ job.task = exports[k].task
        /\ job.status = exports[k].status
    BY <2>1 DEF ExportJob
  <2> HIDE DEF job
  <2>3. ReportedAs(job)
    BY <2>1, <2>2, Zenon DEF ReportedAs, Over
  <2> QED  BY <2>1, <2>2, <2>3 DEF job
<1> DEFINE n == Len(exports)
           jobs == [i \in 1..n |-> [exports[i] EXCEPT !.stop = TRUE]]
<1>4. exports' = jobs
  BY <1>2
<1>5. jobs \in [1..n -> ExportJob] /\ n \in Nat
  BY <1>2, <1>3
<1>6. jobs \in Seq(ExportJob)
  BY <1>5, SeqDef
<1>7. /\ DOMAIN jobs = 1..n
      /\ \A k \in 1..n : jobs[k].id = k /\ ReportedAs(jobs[k]) /\ jobs[k].task = exports[k].task
  BY <1>3
<1> HIDE DEF jobs
<1>8. Len(jobs) = n
  BY <1>5, <1>6, <1>7, LenProperties
<1>9. SameWork(exports, jobs)
  BY <1>6, <1>7, <1>8 DEF SameWork, Over
<1>10. ExportsOK(jobs) /\ DOMAIN jobs = DOMAIN exports
  BY <1>1, <1>9, NoMoreWork
<1> QED  BY <1>4, <1>10, Zenon

\* One more export starts when all others are over.
LEMMA ExportStarted ==
  ASSUME ExportsGood, \A i \in DOMAIN exports : RefreshedExports[i].status # "running",
         Len(exports) < MaxExports,
         NEW job \in ExportJob, job.id = Len(exports) + 1, ReportedAs(job),
         exports' = Append(RefreshedExports, job)
  PROVE  ExportsOK(exports') /\ DOMAIN exports \subseteq DOMAIN exports'
<1>1. /\ ExportsOK(RefreshedExports) /\ DOMAIN RefreshedExports = DOMAIN exports
      /\ Len(RefreshedExports) = Len(exports)
      /\ \A i \in DOMAIN exports : RefreshedExports[i] = RefreshedExport(exports[i])
  BY AllRefreshed
<1>2. ExportsOK(exports)
  BY DEF ExportsGood
<1>3. /\ Len(exports) \in Nat /\ DOMAIN exports = 1..Len(exports)
      /\ \A k \in 1..Len(exports) : exports[k] \in ExportJob /\ ReportedAs(exports[k])
  BY <1>2, ExportsTyped
<1>4. /\ RefreshedExports \in Seq(ExportJob)
      /\ \A k \in 1..Len(exports) :
           RefreshedExports[k].id = k /\ ReportedAs(RefreshedExports[k])
  BY <1>1, ExportsTyped
<1> DEFINE n == Len(exports)
           jobs == Append(RefreshedExports, job)
<1>5. /\ jobs \in Seq(ExportJob) /\ Len(jobs) = n + 1 /\ jobs[n + 1] = job
      /\ \A k \in 1..n : jobs[k] = RefreshedExports[k]
  BY <1>1, <1>3, <1>4, AppendProperties
<1> HIDE DEF jobs
<1>6. DOMAIN jobs = 1..(n + 1)
  BY <1>5, LenProperties
<1>7. \A k \in 1..n : Over(jobs[k])
  <2>1. SUFFICES ASSUME NEW k \in 1..n PROVE Over(jobs[k])
    OBVIOUS
  <2>2. /\ jobs[k] = RefreshedExport(exports[k]) /\ jobs[k].status # "running"
        /\ exports[k] \in ExportJob /\ ReportedAs(exports[k])
    BY <1>1, <1>3, <1>5
  <2>3. Over(exports[k]) /\ jobs[k].task = exports[k].task
    BY <2>2, RefreshedJob
  <2> QED  BY <2>3 DEF Over
<1>8. Underway(jobs) \subseteq {n + 1}
  BY <1>3, <1>6, <1>7 DEF Underway
<1>9. Cardinality(Underway(jobs)) <= 1
  <2>1. IsFiniteSet({n + 1}) /\ Cardinality({n + 1}) = 1
    BY FS_Singleton
  <2> QED  BY <1>8, <2>1, FS_Subset
<1>10. \A k \in DOMAIN jobs : jobs[k].id = k /\ ReportedAs(jobs[k])
  BY <1>3, <1>4, <1>5, <1>6
<1>11. Len(jobs) <= MaxExports
  BY <1>3, <1>5, LimitsTyped
<1>12. ExportsOK(jobs)
  BY <1>5, <1>9, <1>10, <1>11 DEF ExportsOK
<1>13. exports' = jobs
  BY DEF jobs
<1> QED  BY <1>3, <1>6, <1>12, <1>13

\* A job goes from one stage to the next or ends; only its installation touches the file.
LEMMA StageDone ==
  ASSUME NEW job \in ExportJob, ~Over(job), ReportedAs(job), NEW media \in Nat, NEW file,
         NEW outcome \in Advances(job, media, file)
  PROVE  /\ outcome.job \in ExportJob /\ outcome.job.id = job.id
         /\ ReportedAs(outcome.job) /\ outcome.job.overwrite = job.overwrite
         /\ outcome.output # file => /\ outcome.job.task = "installed"
                                     /\ outcome.output = job.id
                                     /\ file = Absent \/ job.overwrite
<1>1. job.status = "running"
  BY DEF ReportedAs
<1>2. ASSUME NEW base \in ExportJob, NEW task \in ExportTasks, NEW there,
             base.id = job.id, base.overwrite = job.overwrite, base.status = "running",
             outcome \in Then(base, task, there)
      PROVE  /\ outcome.job \in ExportJob /\ outcome.job.id = job.id
             /\ ReportedAs(outcome.job) /\ outcome.job.overwrite = job.overwrite
             /\ outcome.job.task = task /\ outcome.output = there
  <2>1. outcome = [job |-> [base EXCEPT !.task = task], output |-> there]
    BY <1>2 DEF Then
  <2> DEFINE next == [base EXCEPT !.task = task]
  <2>2. /\ next \in ExportJob /\ next.id = job.id /\ next.status = "running"
        /\ next.overwrite = job.overwrite /\ next.task = task
    BY <1>2 DEF ExportJob
  <2>3. ReportedAs(next)
    BY <2>2, Zenon DEF ReportedAs
  <2>4. outcome.job = next /\ outcome.output = there
    BY <2>1
  <2> QED  BY <2>2, <2>3, <2>4, Zenon
<1> DEFINE opened == [job EXCEPT !.version = media]
<1>3. /\ opened \in ExportJob /\ opened.id = job.id /\ opened.overwrite = job.overwrite
      /\ opened.status = "running"
  BY <1>1 DEF ExportJob
<1>4. \/ \E task \in {"failed", "cancelled", "flushing", "installing"} :
           outcome \in Then(job, task, file)
      \/ outcome \in Then(opened, "rendering", file)
      \/ (file = Absent \/ job.overwrite) /\ outcome \in Then(job, "installed", job.id)
  <2>1. job.task \in {"starting", "rendering", "flushing", "installing"}
    BY DEF Over, OverTasks, ExportJob, ExportTasks
  <2>2. CASE job.task = "starting"
    <3>1. outcome \in Unless(job, file, Starts(job, media, file))
      BY <2>2 DEF Advances
    <3> QED  BY <3>1, Zenon DEF Unless, Starts, Fails
  <2>3. CASE job.task = "rendering"
    <3>1. outcome \in Unless(job, file, Renders(job, media, file))
      BY <2>3 DEF Advances
    <3> QED  BY <3>1, Zenon DEF Unless, Renders, Fails
  <2>4. CASE job.task = "flushing"
    <3>1. outcome \in Unless(job, file, Flushes(job, media, file))
      BY <2>4 DEF Advances
    <3> QED  BY <3>1, Zenon DEF Unless, Flushes, Fails
  <2>5. CASE job.task = "installing"
    <3>1. outcome \in Installs(job, file)
      BY <2>5 DEF Advances
    <3> QED  BY <3>1, Zenon DEF Installs, Fails
  <2> QED  BY <2>1, <2>2, <2>3, <2>4, <2>5
<1>5. CASE \E task \in {"failed", "cancelled", "flushing", "installing"} :
             outcome \in Then(job, task, file)
  <2>1. PICK task \in {"failed", "cancelled", "flushing", "installing"} :
               outcome \in Then(job, task, file)
    BY <1>5
  <2>2. task \in ExportTasks
    BY DEF ExportTasks
  <2> QED  BY <1>1, <1>2, <2>1, <2>2, Zenon
<1>6. CASE outcome \in Then(opened, "rendering", file)
  <2>1. "rendering" \in ExportTasks
    BY DEF ExportTasks
  <2> HIDE DEF opened
  <2> QED  BY <1>2, <1>3, <1>6, <2>1, Zenon
<1>7. CASE (file = Absent \/ job.overwrite) /\ outcome \in Then(job, "installed", job.id)
  <2>1. "installed" \in ExportTasks
    BY DEF ExportTasks
  <2> QED  BY <1>1, <1>2, <1>7, <2>1, Zenon
<1> QED  BY <1>4, <1>5, <1>6, <1>7
-----------------------------------------------------------------------------
(* What a step may do to the project and its files.                        *)

LEMMA ProjectUntouched ==
  ASSUME ProjectGood, UNCHANGED projectVars, UNCHANGED policy
  PROVE  ProjectGood'
BY DEF ProjectGood, HonestAboutFiles, projectVars, EditorType

\* A revision is published and, where checkpoints are on, kept or reported as not kept.
LEMMA RevisionPublished ==
  ASSUME WorldGood, ProjectGood, UNCHANGED policy, NEW next, EditorType(next), Publishes(next)
  PROVE  ProjectGood'
<1>1. editor' = next /\ saved' = saved /\ Checkpoints
  BY DEF Publishes
<1>2. /\ saved \in Nat /\ recovery \in [revision : Nat \cup {None}, error : BOOLEAN]
      /\ files \in [project : Nat, checkpoint : Nat \cup {None}]
      /\ saved = files.project
      /\ recovery.revision # None => recovery.revision = files.checkpoint
  BY DEF ProjectGood, HonestAboutFiles
<1>3. EditorType(editor') /\ saved' \in Nat
  BY <1>1, <1>2, Zenon
<1>4. editor'.revision \in Nat
  BY <1>3, LimitsTyped DEF EditorType
<1>5. CASE ~policy.recovery /\ UNCHANGED <<recovery, files>>
  <2>1. HonestAboutFiles'
    BY <1>1, <1>2, <1>5, Zenon DEF HonestAboutFiles
  <2> QED  BY <1>2, <1>3, <1>5, <2>1, Zenon DEF ProjectGood
<1>6. CASE /\ policy.recovery /\ recovery' = [revision |-> editor'.revision, error |-> FALSE]
           /\ files' = [files EXCEPT !.checkpoint = editor'.revision]
  <2>1. /\ recovery' \in [revision : Nat \cup {None}, error : BOOLEAN]
        /\ files' \in [project : Nat, checkpoint : Nat \cup {None}]
        /\ recovery'.revision = editor'.revision
        /\ files'.checkpoint = editor'.revision /\ files'.project = files.project
    BY <1>2, <1>4, <1>6
  <2>2. HonestAboutFiles'
    BY <1>1, <1>2, <2>1 DEF HonestAboutFiles
  <2> QED  BY <1>3, <2>1, <2>2, Zenon DEF ProjectGood
<1>7. CASE policy.recovery /\ recovery' = [recovery EXCEPT !.error = TRUE] /\ UNCHANGED files
  <2>1. /\ recovery' \in [revision : Nat \cup {None}, error : BOOLEAN]
        /\ recovery'.revision = recovery.revision /\ recovery'.error = TRUE
    BY <1>2, <1>7
  <2>2. HonestAboutFiles'
    BY <1>1, <1>2, <1>7, <2>1, Zenon DEF HonestAboutFiles
  <2> QED  BY <1>2, <1>3, <1>7, <2>1, <2>2, Zenon DEF ProjectGood
<1> QED  BY <1>1, <1>5, <1>6, <1>7, Zenon DEF Checkpoints

LEMMA ProjectSaved ==
  ASSUME ProjectGood, UNCHANGED policy, UNCHANGED editor, saved' = editor.revision,
         recovery' = [revision |-> None, error |-> FALSE],
         files' = [project |-> editor.revision, checkpoint |-> None]
  PROVE  ProjectGood'
<1>1. editor.revision \in Nat
  BY LimitsTyped DEF ProjectGood, EditorType
<1>2. EditorType(editor')
  BY Zenon DEF ProjectGood
<1>3. /\ recovery' \in [revision : Nat \cup {None}, error : BOOLEAN]
      /\ files' \in [project : Nat, checkpoint : Nat \cup {None}]
      /\ recovery'.revision = None /\ files'.project = editor.revision
  BY <1>1
<1>4. HonestAboutFiles'
  BY <1>3 DEF HonestAboutFiles
<1> QED  BY <1>1, <1>2, <1>3, <1>4 DEF ProjectGood

LEMMA EditedTyped ==
  ASSUME ProjectGood, ~Full, NEW next \in Edited
  PROVE  EditorType(next)
<1>1. /\ editor.revision \in 0..MaxOperations /\ editor.undo \in 0..HistoryEntries
      /\ MaxOperations \in Nat /\ HistoryEntries \in Nat
  BY LimitsTyped DEF ProjectGood, EditorType
<1>2. editor.revision + 1 \in 0..MaxOperations
  BY <1>1 DEF Full
<1>3. PICK depth \in Lower(1, HistoryEntries)..Lower(editor.undo + 1, HistoryEntries) :
        next = [revision |-> editor.revision + 1, undo |-> depth, redo |-> 0]
  BY DEF Edited
<1>4. depth \in 0..HistoryEntries /\ 0 \in 0..HistoryEntries /\ depth + 0 <= HistoryEntries
  BY <1>1, <1>3 DEF Lower
<1>5. next \in [revision : 0..MaxOperations, undo : 0..HistoryEntries, redo : 0..HistoryEntries]
  BY <1>2, <1>3, <1>4
<1>6. next.undo + next.redo <= HistoryEntries
  BY <1>3, <1>4
<1> QED  BY <1>5, <1>6, Zenon DEF EditorType

\* Undo takes from one stack and gives to the other; redo does the reverse.
LEMMA RestoredTyped ==
  ASSUME ProjectGood, ~Full
  PROVE  /\ editor.undo > 0 =>
              EditorType([revision |-> editor.revision + 1, undo |-> editor.undo - 1,
                          redo |-> editor.redo + 1])
         /\ editor.redo > 0 =>
              EditorType([revision |-> editor.revision + 1, undo |-> editor.undo + 1,
                          redo |-> editor.redo - 1])
<1>1. /\ editor.revision \in 0..MaxOperations /\ editor.undo \in 0..HistoryEntries
      /\ editor.redo \in 0..HistoryEntries /\ MaxOperations \in Nat /\ HistoryEntries \in Nat
      /\ editor.undo + editor.redo <= HistoryEntries
  BY LimitsTyped DEF ProjectGood, EditorType
<1>2. editor.revision + 1 \in 0..MaxOperations
  BY <1>1 DEF Full
<1>3. ASSUME NEW u \in 0..HistoryEntries, NEW d \in 0..HistoryEntries, u + d <= HistoryEntries
      PROVE  EditorType([revision |-> editor.revision + 1, undo |-> u, redo |-> d])
  BY <1>2, <1>3 DEF EditorType
<1>4. editor.undo > 0 => /\ editor.undo - 1 \in 0..HistoryEntries
                         /\ editor.redo + 1 \in 0..HistoryEntries
                         /\ (editor.undo - 1) + (editor.redo + 1) <= HistoryEntries
  BY <1>1
<1>5. editor.redo > 0 => /\ editor.undo + 1 \in 0..HistoryEntries
                         /\ editor.redo - 1 \in 0..HistoryEntries
                         /\ (editor.undo + 1) + (editor.redo - 1) <= HistoryEntries
  BY <1>1
<1> QED  BY <1>3, <1>4, <1>5, Zenon
-----------------------------------------------------------------------------
(* What a step may do to the ledger.                                       *)

LEMMA LedgerUntouched ==
  ASSUME LedgerGood, UNCHANGED ledgerVars, UNCHANGED policy
  PROVE  LedgerGood'
BY DEF LedgerGood, Consistent, SaveReserved, Fits, EntryLimit, ledgerVars

\* An answer is a failure or a success.
LEMMA FailureTyped ==
  ASSUME NEW code \in Codes
  PROVE  Failure(code) \in Result
BY DEF Failure, Result

LEMMA SuccessTyped ==
  ASSUME ProjectGood', NEW id \in Nat, NEW effect \in BOOLEAN, NEW warned \in BOOLEAN
  PROVE  Success(id, effect, warned) \in Result
<1>1. editor'.revision \in Nat
  BY LimitsTyped DEF ProjectGood, EditorType
<1>2. "ok" \in Codes
  BY DEF Codes
<1> QED  BY <1>1, <1>2, Zenon DEF Success, Result

LEMMA MemosTyped ==
  ASSUME LedgerGood
  PROVE  /\ memos \in Seq(Memo) /\ Len(memos) \in Nat /\ DOMAIN memos = 1..Len(memos)
         /\ \A key \in 1..Len(memos) : memos[key] \in Memo
<1>1. memos \in Seq(Memo)
  BY DEF LedgerGood
<1> QED  BY <1>1, LenProperties, ElementOfSeq

\* A request that is admitted goes on record under the next key, and leaves room for a
\* save.
LEMMA RequestRecorded ==
  ASSUME WorldGood, LedgerGood, UNCHANGED policy, NEW r \in Request,
         r.key = Len(memos) + 1, Fits(r.tool), NEW answer \in Result,
         NEW size \in 1..MaxPayload, r.tool = "project_save" => size = 1,
         Records(r, answer, size)
  PROVE  LedgerGood'
<1> DEFINE n == Len(memos)
           entry == [request |-> r, result |-> answer]
           list == Put(memos, n + 1, entry)
<1>1. /\ memos' = list /\ memoBytes' = memoBytes + 1 + size
      /\ told' = told \cup {entry}
      /\ acted' = IF answer.code = "ok" THEN acted \cup {entry} ELSE acted
      /\ reserveUsed' = (reserveUsed \/ ~Fits("edit_preview"))
  BY DEF Records
<1>2. /\ memos \in Seq(Memo) /\ n \in Nat /\ DOMAIN memos = 1..n
      /\ \A key \in 1..n : memos[key] \in Memo
  BY MemosTyped
<1>3. entry \in Memo /\ entry.request = r /\ entry.result = answer
  BY DEF Memo
<1> HIDE DEF entry
<1>4. /\ DOMAIN list = 1..(n + 1) /\ list[n + 1] = entry
      /\ \A key \in 1..n : list[key] = memos[key]
      /\ list \in [1..(n + 1) -> Memo]
  BY <1>2, <1>3 DEF Put
<1>5. list \in Seq(Memo)
  BY <1>2, <1>4, SeqDef
<1> HIDE DEF list
<1>6. Len(list) = n + 1
  BY <1>2, <1>4, <1>5, LenProperties
<1>7. /\ policy.requests \in Nat /\ policy.memo \in Nat /\ MaxPayload \in Nat \ {0}
      /\ memoBytes \in 0..policy.memo /\ reserveUsed \in BOOLEAN
  BY PolicyTyped, LimitsTyped DEF LedgerGood
<1>8. n + 1 <= policy.requests + 1
  BY <1>2, <1>7 DEF Fits, EntryLimit
<1>9. memoBytes + 1 + size \in 0..policy.memo
  <2>1. memoBytes + 1 + Reserve(r.tool) <= policy.memo
    BY DEF Fits
  <2>2. CASE r.tool = "project_save"
    BY <1>7, <2>1, <2>2 DEF Reserve
  <2>3. CASE r.tool # "project_save"
    BY <1>7, <2>1, <2>3 DEF Reserve
  <2> QED  BY <2>2, <2>3
<1>10. reserveUsed' \in BOOLEAN
  BY <1>1, Zenon
<1>11. SaveReserved'
  <2>1. SUFFICES ASSUME ~reserveUsed' PROVE Fits("project_save")'
    BY DEF SaveReserved
  <2>2. Fits("edit_preview")
    BY <1>1, <2>1, Zenon
  <2>3. n < policy.requests /\ memoBytes + 1 + MaxPayload + 2 <= policy.memo
    BY <1>2, <1>7, <2>2 DEF Fits, EntryLimit, Reserve
  <2>4. n + 1 < policy.requests + 1 /\ (memoBytes + 1 + size) + 1 + 1 <= policy.memo
    BY <1>2, <1>7, <2>3
  <2>5. Len(memos') < policy.requests + 1 /\ memoBytes' + 1 + 1 <= policy.memo
    BY <1>1, <1>6, <2>4
  <2> QED  BY <2>5 DEF Fits, EntryLimit, Reserve
<1>12. Consistent'
  <2>1. /\ \A key \in DOMAIN memos :
             /\ memos[key].request.key = key
             /\ memos[key].result.code = "ok" => memos[key] \in acted
        /\ \A a \in acted \cup told : a.request.key \in DOMAIN memos /\ memos[a.request.key] = a
    BY DEF LedgerGood, Consistent
  <2>2. acted \subseteq acted' /\ acted' \cup told' \subseteq acted \cup told \cup {entry}
    BY <1>1
  <2>3. answer.code = "ok" => entry \in acted'
    BY <1>1
  <2>4. ASSUME NEW key \in DOMAIN list
        PROVE  /\ list[key].request.key = key
               /\ list[key].result.code = "ok" => list[key] \in acted'
    <3>1. CASE key = n + 1
      BY <1>3, <1>4, <2>3, <3>1
    <3>2. CASE key # n + 1
      <4>1. key \in DOMAIN memos /\ list[key] = memos[key]
        BY <1>2, <1>4, <3>2
      <4> QED  BY <2>1, <2>2, <4>1
    <3> QED  BY <3>1, <3>2
  <2>5. ASSUME NEW a \in acted' \cup told'
        PROVE  a.request.key \in DOMAIN list /\ list[a.request.key] = a
    <3>1. CASE a = entry
      BY <1>2, <1>3, <1>4, <3>1
    <3>2. CASE a # entry
      <4>1. a.request.key \in DOMAIN memos /\ memos[a.request.key] = a
        BY <2>1, <2>2, <2>5, <3>2
      <4> QED  BY <1>2, <1>4, <4>1
    <3> QED  BY <3>1, <3>2
  <2> QED  BY <1>1, <2>4, <2>5, Zenon DEF Consistent
<1>13. /\ memos' \in Seq(Memo) /\ Len(memos') <= policy'.requests + 1
       /\ memoBytes' \in 0..policy'.memo
  BY <1>1, <1>5, <1>6, <1>8, <1>9
<1> QED  BY <1>10, <1>11, <1>12, <1>13, Zenon DEF LedgerGood

\* A retry adds nothing but what its first call was told.
LEMMA RequestReplayed ==
  ASSUME LedgerGood, UNCHANGED policy, NEW r, Answered(r), Replays(r)
  PROVE  LedgerGood'
<1>1. /\ told' = told \cup {[request |-> r, result |-> memos[r.key].result]}
      /\ UNCHANGED <<memos, memoBytes, acted, reserveUsed>>
  BY DEF Replays
<1>2. r.key \in DOMAIN memos /\ memos[r.key].request = r
  BY DEF Answered, Recorded
<1>3. memos[r.key] \in Memo
  BY <1>2, MemosTyped
<1>4. memos[r.key] = [request |-> r, result |-> memos[r.key].result]
  BY <1>2, <1>3 DEF Memo
<1>5. Consistent'
  <2>1. /\ \A key \in DOMAIN memos :
             /\ memos[key].request.key = key
             /\ memos[key].result.code = "ok" => memos[key] \in acted
        /\ \A a \in acted \cup told : a.request.key \in DOMAIN memos /\ memos[a.request.key] = a
    BY DEF LedgerGood, Consistent
  <2>2. told' = told \cup {memos[r.key]} /\ acted' = acted /\ memos' = memos
    BY <1>1, <1>4
  <2>3. ASSUME NEW a \in acted \cup (told \cup {memos[r.key]})
        PROVE  a.request.key \in DOMAIN memos /\ memos[a.request.key] = a
    <3>1. CASE a = memos[r.key]
      BY <1>2, <2>1, <3>1, Zenon
    <3>2. CASE a # memos[r.key]
      BY <2>1, <2>3, <3>2, Zenon
    <3> QED  BY <3>1, <3>2
  <2> QED  BY <2>1, <2>2, <2>3, Zenon DEF Consistent
<1>6. SaveReserved'
  BY <1>1 DEF LedgerGood, SaveReserved, Fits, EntryLimit, Reserve
<1> QED  BY <1>1, <1>5, <1>6 DEF LedgerGood
-----------------------------------------------------------------------------
(* What each tool does: one of these things to every part.                 *)

Beside == UNCHANGED <<phase, policy, now, source, output>>

\* A call that is carried out: a new key, and room for it in the ledger.
Admitted(r) ==
  /\ McpInv /\ Beside
  /\ r \in Request /\ r.key = Len(memos) + 1 /\ Fits(r.tool)

PartsGood ==
  ProjectGood' /\ ProposalsGood' /\ ProbesGood' /\ Imported /\ ExportsGood' /\ LedgerGood'

LEMMA JobsKept ==
  ASSUME McpInv, Beside
  PROVE  /\ UNCHANGED projectVars => ProjectGood'
         /\ KeepsProposals => ProposalsGood'
         /\ KeepsProbes => ProbesGood' /\ Imported
         /\ UNCHANGED exports => ExportsGood'
<1>1. ProjectGood /\ ProposalsGood /\ ProbesGood /\ ExportsGood
  BY Zenon DEF McpInv
<1>2. UNCHANGED policy /\ UNCHANGED output
  BY DEF Beside
<1>3. UNCHANGED projectVars => ProjectGood'
  BY <1>1, <1>2, ProjectUntouched
<1>4. KeepsProposals => ProposalsGood'
  BY <1>1, ProposalsKept, Zenon
<1>5. KeepsProbes => ProbesGood' /\ Imported
  BY <1>1, ProbesKept, Zenon
<1>6. UNCHANGED exports => ExportsGood'
  <2>1. ASSUME UNCHANGED exports PROVE UNCHANGED <<exports, output>>
    BY <1>2, <2>1
  <2> QED  BY <1>1, <2>1, ExportsUntouched, Zenon
<1> QED  BY <1>3, <1>4, <1>5, <1>6, Zenon

LEMMA Recording ==
  ASSUME NEW r, Admitted(r), NEW answer \in Result, Records(r, answer, 1)
  PROVE  LedgerGood'
<1>1. WorldGood /\ LedgerGood /\ UNCHANGED policy
  BY DEF Admitted, McpInv, Beside
<1>2. r \in Request /\ r.key = Len(memos) + 1 /\ Fits(r.tool)
  BY Zenon DEF Admitted
<1>3. 1 \in 1..MaxPayload
  BY LimitsTyped
<1> QED  BY <1>1, <1>2, <1>3, RequestRecorded

LEMMA Answering ==
  ASSUME NEW r, Admitted(r), ProjectGood', NEW effect \in BOOLEAN, Answers(r, effect)
  PROVE  LedgerGood'
<1>1. recovery'.error \in BOOLEAN
  BY DEF ProjectGood
<1>2. (effect /\ recovery'.error) \in BOOLEAN
  OBVIOUS
<1>3. r.id \in Nat
  BY DEF Admitted, Request
<1> DEFINE warned == effect /\ recovery'.error
           answer == Success(r.id, effect, warned)
<1>4. Records(r, answer, 1)
  BY Zenon DEF Answers
<1>5. warned \in BOOLEAN
  BY <1>2
<1> HIDE DEF warned
<1>6. answer \in Result
  BY <1>3, <1>5, SuccessTyped
<1> HIDE DEF answer
<1> QED  BY <1>4, <1>6, Recording

LEMMA Announcing ==
  ASSUME NEW r, Admitted(r), ProjectGood', NEW id \in Nat, NEW effect \in BOOLEAN,
         Records(r, Success(id, effect, FALSE), 1)
  PROVE  LedgerGood'
<1>1. Success(id, effect, FALSE) \in Result
  <2>1. FALSE \in BOOLEAN
    OBVIOUS
  <2> QED  BY <2>1, SuccessTyped
<1> DEFINE answer == Success(id, effect, FALSE)
<1>2. answer \in Result /\ Records(r, answer, 1)
  BY <1>1
<1> HIDE DEF answer
<1> QED  BY <1>2, Recording

LEMMA Failing ==
  ASSUME NEW r, Admitted(r), NEW code \in Codes, Records(r, Failure(code), 1)
  PROVE  LedgerGood'
<1>1. Failure(code) \in Result
  BY FailureTyped
<1> DEFINE answer == Failure(code)
<1>2. answer \in Result /\ Records(r, answer, 1)
  BY <1>1
<1> HIDE DEF answer
<1> QED  BY <1>2, Recording

LEMMA Refusing ==
  ASSUME NEW r, Admitted(r), NEW code \in Codes, Refuses(r, code)
  PROVE  PartsGood
<1>1. McpInv /\ Beside
  BY Zenon DEF Admitted
<1>2. UNCHANGED projectVars /\ KeepsProposals /\ KeepsProbes /\ UNCHANGED exports
  BY Zenon DEF Refuses, KeepsJobs
<1>3. LedgerGood'
  <2>1. Records(r, Failure(code), 1)
    BY Zenon DEF Refuses
  <2> QED  BY <2>1, Failing
<1> QED  BY <1>1, <1>2, <1>3, JobsKept, Zenon DEF PartsGood

LEMMA Previewing ==
  ASSUME NEW r, Admitted(r), r.tool = "edit_preview", EditPreview(r)
  PROVE  PartsGood
<1>1. McpInv /\ Beside /\ ProposalsGood
  BY Zenon DEF Admitted, McpInv
<1>2. {"proposal_limit", "revision_conflict", "invalid_edit", "response_limit"} \subseteq Codes
  BY DEF Codes
<1>3. CASE ~HasRoom /\ Refuses(r, "proposal_limit")
  BY <1>2, <1>3, Refusing
<1>4. CASE Stale(r) /\ Refuses(r, "revision_conflict")
  BY <1>2, <1>4, Refusing
<1>5. CASE \E code \in {"invalid_edit", "proposal_limit"} : Refuses(r, code)
  BY <1>2, <1>5, Refusing
<1>6. CASE HasRoom /\ Proposes(r)
  <2>1. PICK size \in 1..MaxSnapshot :
          \E changes \in BOOLEAN, payload \in 1..MaxPayload :
            /\ LiveBytes + size <= MaxProposalBytes
            /\ nextProposal' = nextProposal + 1
            /\ proposals' = Put(Live, nextProposal', [base |-> editor.revision, bytes |-> size,
                                              expires |-> now + ProposalLife,
                                              changes |-> changes])
            /\ proposalBytes' = LiveBytes + size
            /\ UNCHANGED <<projectVars, exports>> /\ KeepsProbes
            /\ Records(r, Success(nextProposal', FALSE, FALSE), payload)
    BY <1>6, Zenon DEF Proposes
  <2>2. PICK changes \in BOOLEAN, payload \in 1..MaxPayload :
            /\ LiveBytes + size <= MaxProposalBytes
            /\ nextProposal' = nextProposal + 1
            /\ proposals' = Put(Live, nextProposal', [base |-> editor.revision, bytes |-> size,
                                              expires |-> now + ProposalLife,
                                              changes |-> changes])
            /\ proposalBytes' = LiveBytes + size
            /\ UNCHANGED <<projectVars, exports>> /\ KeepsProbes
            /\ Records(r, Success(nextProposal', FALSE, FALSE), payload)
    BY <2>1, Zenon
  <2> DEFINE p == [base |-> editor.revision, bytes |-> size, expires |-> now + ProposalLife,
                   changes |-> changes]
  <2>3. p \in Proposal /\ p.bytes = size
    <3>1. editor.revision \in Nat /\ now + ProposalLife \in Nat
      BY LimitsTyped DEF Admitted, McpInv, WorldGood, ProjectGood, EditorType
    <3> QED  BY <3>1 DEF Proposal
  <2>4. proposals' = Put(Live, nextProposal', p)
    BY <2>2, Zenon
  <2> HIDE DEF p
  <2>5. ProposalsGood'
    BY <1>1, <1>6, <2>2, <2>3, <2>4, ProposalAdded
  <2>6. UNCHANGED projectVars /\ UNCHANGED exports
    BY <2>2
  <2>7. ProjectGood' /\ ProbesGood' /\ Imported /\ ExportsGood'
    BY <1>1, <2>2, <2>6, JobsKept, Zenon
  <2>8. LedgerGood'
    <3> DEFINE id == nextProposal + 1
               answer == Success(id, FALSE, FALSE)
    <3>1. Records(r, answer, payload)
      BY <2>2, Zenon
    <3>2. id \in Nat
      BY <1>1 DEF ProposalsGood, Held
    <3> HIDE DEF id
    <3>3. FALSE \in BOOLEAN
      OBVIOUS
    <3>4. answer \in Result
      BY <2>7, <3>2, <3>3, SuccessTyped
    <3> HIDE DEF answer
    <3>5. WorldGood /\ LedgerGood /\ UNCHANGED policy
      BY DEF Admitted, McpInv, Beside
    <3>6. r \in Request /\ r.key = Len(memos) + 1 /\ Fits(r.tool)
      BY Zenon DEF Admitted
    <3>7. r.tool # "project_save"
      OBVIOUS
    <3> QED  BY <2>2, <3>1, <3>4, <3>5, <3>6, <3>7, RequestRecorded
  <2> QED  BY <2>5, <2>7, <2>8, Zenon DEF PartsGood
<1>7. CASE /\ nextProposal' = nextProposal + 1
           /\ proposals' = Live /\ proposalBytes' = LiveBytes
           /\ UNCHANGED <<projectVars, exports>> /\ KeepsProbes
           /\ Records(r, Failure("response_limit"), 1)
  <2>1. ProposalsGood'
    BY <1>1, <1>7, ProposalIdLost
  <2>2. UNCHANGED projectVars /\ UNCHANGED exports
    BY <1>7
  <2>3. ProjectGood' /\ ProbesGood' /\ Imported /\ ExportsGood'
    BY <1>1, <1>7, <2>2, JobsKept, Zenon
  <2>4. LedgerGood'
    BY <1>2, <1>7, Failing
  <2> QED  BY <2>1, <2>3, <2>4, Zenon DEF PartsGood
<1> QED  BY <1>3, <1>4, <1>5, <1>6, <1>7, Zenon DEF EditPreview

\* A proposal that is named in vain is closed and its bytes are given back.
LEMMA Closing ==
  ASSUME NEW r, Admitted(r), r.id \in DOMAIN Live, NEW code \in Codes, ClosesUnused(r, code)
  PROVE  PartsGood
<1>1. McpInv /\ Beside /\ ProposalsGood
  BY Zenon DEF Admitted, McpInv
<1>2. /\ TakesProposal(r) /\ UNCHANGED <<projectVars, exports>> /\ KeepsProbes
      /\ Records(r, Failure(code), 1)
  BY Zenon DEF ClosesUnused
<1>3. ProposalsGood'
  BY <1>1, <1>2, ProposalTaken
<1>4. UNCHANGED projectVars /\ UNCHANGED exports
  BY <1>2
<1>5. ProjectGood' /\ ProbesGood' /\ Imported /\ ExportsGood'
  BY <1>1, <1>2, <1>4, JobsKept, Zenon
<1>6. LedgerGood'
  BY <1>2, Failing
<1> QED  BY <1>3, <1>5, <1>6, Zenon DEF PartsGood

LEMMA Publishing ==
  ASSUME NEW r, Admitted(r), NEW next, EditorType(next), Publishes(next), Answers(r, TRUE)
  PROVE  ProjectGood' /\ LedgerGood'
<1>1. WorldGood /\ ProjectGood /\ UNCHANGED policy
  BY DEF Admitted, McpInv, Beside
<1>2. ProjectGood'
  BY <1>1, RevisionPublished
<1>3. TRUE \in BOOLEAN
  OBVIOUS
<1> QED  BY <1>2, <1>3, Answering

LEMMA Committing ==
  ASSUME NEW r, Admitted(r), EditCommit(r)
  PROVE  PartsGood
<1>1. McpInv /\ Beside /\ ProposalsGood /\ ProjectGood
  BY Zenon DEF Admitted, McpInv
<1>2. {"permission_denied", "proposal_missing", "revision_conflict", "invalid_edit"}
        \subseteq Codes
  BY DEF Codes
<1>3. CASE ~policy.edit /\ Refuses(r, "permission_denied")
  BY <1>2, <1>3, Refusing
<1>4. CASE r.id \notin DOMAIN Live /\ Refuses(r, "proposal_missing")
  BY <1>2, <1>4, Refusing
<1>5. CASE r.id \in DOMAIN Live /\ ClosesUnused(r, "revision_conflict")
  BY <1>2, <1>5, Closing
<1>6. CASE r.id \in DOMAIN Live /\ ClosesUnused(r, "invalid_edit")
  BY <1>2, <1>6, Closing
<1>7. CASE /\ r.id \in DOMAIN Live /\ ~Full
           /\ (\E next \in Edited : Publishes(next)) /\ TakesProposal(r)
           /\ KeepsProbes /\ UNCHANGED exports /\ Answers(r, TRUE)
  <2>1. ProposalsGood'
    BY <1>1, <1>7, ProposalTaken
  <2>2. PICK next \in Edited : Publishes(next)
    BY <1>7
  <2>5. EditorType(next)
    BY <1>1, <1>7, <2>2, EditedTyped
  <2>3. ProjectGood' /\ LedgerGood'
    BY <1>7, <2>2, <2>5, Publishing
  <2>4. ProbesGood' /\ Imported /\ ExportsGood'
    BY <1>1, <1>7, JobsKept, Zenon
  <2> QED  BY <2>1, <2>3, <2>4, Zenon DEF PartsGood
<1>8. CASE /\ r.id \in DOMAIN Live /\ UNCHANGED projectVars /\ TakesProposal(r)
           /\ KeepsProbes /\ UNCHANGED exports /\ Answers(r, FALSE)
  <2>1. ProposalsGood'
    BY <1>1, <1>8, ProposalTaken
  <2>2. ProjectGood' /\ ProbesGood' /\ Imported /\ ExportsGood'
    BY <1>1, <1>8, JobsKept, Zenon
  <2>3. LedgerGood'
    <3>1. FALSE \in BOOLEAN
      OBVIOUS
    <3> QED  BY <1>8, <2>2, <3>1, Answering
  <2> QED  BY <2>1, <2>2, <2>3, Zenon DEF PartsGood
<1> QED  BY <1>3, <1>4, <1>5, <1>6, <1>7, <1>8, Zenon DEF EditCommit

LEMMA RollingBack ==
  ASSUME NEW r, Admitted(r), EditRollback(r)
  PROVE  PartsGood
<1>1. McpInv /\ Beside /\ ProposalsGood
  BY Zenon DEF Admitted, McpInv
<1>2. {"proposal_missing", "revision_conflict"} \subseteq Codes
  BY DEF Codes
<1>3. CASE Refuses(r, "proposal_missing")
  BY <1>2, <1>3, Refusing
<1>4. CASE r.id \in DOMAIN Live /\ ClosesUnused(r, "revision_conflict")
  BY <1>2, <1>4, Closing
<1>5. CASE /\ r.id \in DOMAIN Live /\ TakesProposal(r)
           /\ UNCHANGED <<projectVars, exports>> /\ KeepsProbes /\ Answers(r, FALSE)
  <2>1. ProposalsGood'
    BY <1>1, <1>5, ProposalTaken
  <2>2. UNCHANGED projectVars /\ UNCHANGED exports
    BY <1>5
  <2>3. ProjectGood' /\ ProbesGood' /\ Imported /\ ExportsGood'
    BY <1>1, <1>5, <2>2, JobsKept, Zenon
  <2>4. LedgerGood'
    <3>1. FALSE \in BOOLEAN
      OBVIOUS
    <3> QED  BY <1>5, <2>3, <3>1, Answering
  <2> QED  BY <2>1, <2>3, <2>4, Zenon DEF PartsGood
<1> QED  BY <1>3, <1>4, <1>5, Zenon DEF EditRollback

LEMMA Restoring ==
  ASSUME NEW r, Admitted(r), NEW depth \in Nat, NEW next,
         depth > 0 /\ ~Full => EditorType(next), Restores(r, depth, next)
  PROVE  PartsGood
<1>1. McpInv /\ Beside
  BY Zenon DEF Admitted
<1>2. {"permission_denied", "revision_conflict", "invalid_edit"} \subseteq Codes
  BY DEF Codes
<1>3. CASE \E code \in {"permission_denied", "revision_conflict", "invalid_edit"} :
             Refuses(r, code)
  BY <1>2, <1>3, Refusing
<1>4. CASE UNCHANGED projectVars /\ KeepsJobs /\ Answers(r, FALSE)
  <2>1. ProposalsGood' /\ ProjectGood' /\ ProbesGood' /\ Imported /\ ExportsGood'
    BY <1>1, <1>4, JobsKept, Zenon DEF KeepsJobs
  <2>2. LedgerGood'
    <3>1. FALSE \in BOOLEAN
      OBVIOUS
    <3> QED  BY <1>4, <2>1, <3>1, Answering
  <2> QED  BY <2>1, <2>2, Zenon DEF PartsGood
<1>5. CASE depth > 0 /\ ~Full /\ Publishes(next) /\ KeepsJobs /\ Answers(r, TRUE)
  <2>1. ProposalsGood' /\ ProbesGood' /\ Imported /\ ExportsGood'
    BY <1>1, <1>5, JobsKept, Zenon DEF KeepsJobs
  <2>2. ProjectGood' /\ LedgerGood'
    BY <1>5, Publishing
  <2> QED  BY <2>1, <2>2, Zenon DEF PartsGood
<1> QED  BY <1>3, <1>4, <1>5, Zenon DEF Restores

LEMMA UndoingRedoing ==
  ASSUME NEW r, Admitted(r), HistoryUndo(r) \/ HistoryRedo(r)
  PROVE  PartsGood
<1>1. ProjectGood
  BY Zenon DEF Admitted, McpInv
<1>2. editor.undo \in Nat /\ editor.redo \in Nat
  BY <1>1, LimitsTyped DEF ProjectGood, EditorType
<1> DEFINE back == [revision |-> editor.revision + 1, undo |-> editor.undo - 1,
                    redo |-> editor.redo + 1]
           forth == [revision |-> editor.revision + 1, undo |-> editor.undo + 1,
                     redo |-> editor.redo - 1]
<1>3. /\ editor.undo > 0 /\ ~Full => EditorType(back)
      /\ editor.redo > 0 /\ ~Full => EditorType(forth)
  BY <1>1, RestoredTyped, Zenon
<1>4. Restores(r, editor.undo, back) \/ Restores(r, editor.redo, forth)
  BY Zenon DEF HistoryUndo, HistoryRedo
<1> HIDE DEF back, forth
<1> QED  BY <1>2, <1>3, <1>4, Restoring

LEMMA Saving ==
  ASSUME NEW r, Admitted(r), ProjectSave(r)
  PROVE  PartsGood
<1>1. McpInv /\ Beside /\ ProjectGood
  BY Zenon DEF Admitted, McpInv
<1>2. {"permission_denied", "revision_conflict", "save_failed"} \subseteq Codes
  BY DEF Codes
<1>3. CASE \E code \in {"permission_denied", "revision_conflict", "save_failed"} :
             Refuses(r, code)
  BY <1>2, <1>3, Refusing
<1>4. CASE /\ saved' = editor.revision
           /\ recovery' = [revision |-> None, error |-> FALSE]
           /\ files' = [project |-> editor.revision, checkpoint |-> None]
           /\ UNCHANGED editor /\ KeepsJobs /\ Answers(r, FALSE)
  <2>1. UNCHANGED policy
    BY <1>1 DEF Beside
  <2>2. ProjectGood'
    BY <1>1, <1>4, <2>1, ProjectSaved
  <2>3. ProposalsGood' /\ ProbesGood' /\ Imported /\ ExportsGood'
    BY <1>1, <1>4, JobsKept, Zenon DEF KeepsJobs
  <2>4. LedgerGood'
    <3>1. FALSE \in BOOLEAN
      OBVIOUS
    <3> QED  BY <1>4, <2>2, <3>1, Answering
  <2> QED  BY <2>2, <2>3, <2>4, Zenon DEF PartsGood
<1> QED  BY <1>3, <1>4, Zenon DEF ProjectSave, SaveFails

LEMMA ProbeStarting ==
  ASSUME NEW r, Admitted(r), ProbeStart(r)
  PROVE  PartsGood
<1>1. McpInv /\ Beside /\ ProbesGood
  BY Zenon DEF Admitted, McpInv
<1>2. {"revision_conflict", "job_limit", "media_path_denied"} \subseteq Codes
  BY DEF Codes
<1>3. CASE \E code \in {"revision_conflict", "job_limit", "media_path_denied"} :
             Refuses(r, code)
  BY <1>2, <1>3, Refusing
<1> DEFINE job == [relink |-> r.id = 1, base |-> editor.revision,
                   expires |-> now + ProposalLife, stop |-> FALSE,
                   state |-> "running", task |-> "running", version |-> source]
<1>4. CASE /\ Len(probes) < MaxProbes /\ Cardinality(Active) < MaxActiveProbes
           /\ probes' = Append(Swept, job)
           /\ UNCHANGED <<projectVars, exports>> /\ KeepsProposals
           /\ Records(r, Success(Len(probes'), FALSE, FALSE), 1)
  <2>1. job \in ProbeJob
    <3>1. editor.revision \in Nat /\ now + ProposalLife \in Nat /\ source \in Nat
      BY <1>1, LimitsTyped DEF McpInv, WorldGood, ProjectGood, EditorType
    <3>2. (r.id = 1) \in BOOLEAN
      OBVIOUS
    <3> DEFINE relink == r.id = 1
    <3>3. relink \in BOOLEAN
      BY <3>2
    <3> HIDE DEF relink
    <3>4. [relink |-> relink, base |-> editor.revision, expires |-> now + ProposalLife,
           stop |-> FALSE, state |-> "running", task |-> "running", version |-> source]
             \in ProbeJob
      BY <3>1, <3>3 DEF ProbeJob, Final
    <3> QED  BY <3>4 DEF relink
  <2> HIDE DEF job
  <2>2. ProbesGood' /\ Imported
    BY <1>1, <1>4, <2>1, ProbeStarted
  <2>3. UNCHANGED projectVars /\ UNCHANGED exports
    BY <1>4
  <2>4. ProjectGood' /\ ProposalsGood' /\ ExportsGood'
    BY <1>1, <1>4, <2>3, JobsKept, Zenon
  <2>5. LedgerGood'
    <3> DEFINE id == Len(probes')
    <3>1. id \in Nat
      <4>1. probes' \in Seq(ProbeJob)
        BY <2>2 DEF ProbesGood, ProbesOK
      <4> QED  BY <4>1, LenProperties
    <3>2. Records(r, Success(id, FALSE, FALSE), 1)
      BY <1>4
    <3>3. FALSE \in BOOLEAN
      OBVIOUS
    <3> HIDE DEF id
    <3> QED  BY <2>4, <3>1, <3>2, <3>3, Announcing
  <2> QED  BY <2>2, <2>4, <2>5, Zenon DEF PartsGood
<1> HIDE DEF job
<1> QED  BY <1>3, <1>4, Zenon DEF ProbeStart, job

LEMMA ProbeCancelling ==
  ASSUME NEW r, Admitted(r), ProbeCancel(r)
  PROVE  PartsGood
<1>1. McpInv /\ Beside /\ ProbesGood
  BY Zenon DEF Admitted, McpInv
<1>2. CASE Refuses(r, "job_missing")
  <2>1. "job_missing" \in Codes
    BY DEF Codes
  <2> QED  BY <1>2, <2>1, Refusing
<1>3. CASE /\ r.id \in DOMAIN probes
           /\ probes' = IF Swept[r.id].state \in Final THEN Swept
                        ELSE [Swept EXCEPT ![r.id] = Stopped(@, "cancelled")]
           /\ UNCHANGED <<projectVars, exports>> /\ KeepsProposals
           /\ Records(r, Success(r.id, probes'[r.id].state = "cancelled", FALSE), 1)
  <2>1. ProbesGood' /\ Imported
    <3>1. CASE probes' = Swept
      BY <1>1, <3>1, ProbesKept DEF KeepsProbes
    <3>2. CASE probes' = [Swept EXCEPT ![r.id] = Stopped(@, "cancelled")]
      <4> DEFINE job == Stopped(Swept[r.id], "cancelled")
      <4>1. Swept[r.id] \in ProbeJob /\ r.id \in DOMAIN Swept
        BY <1>1, <1>3, SweptJobs, SweptJob
      <4>2. job \in ProbeJob /\ job.task = Swept[r.id].task /\ job.state = "cancelled"
        BY <4>1 DEF Stopped, ProbeJob, Final
      <4>3. probes' = [Swept EXCEPT ![r.id] = job]
        BY <3>2, Zenon
      <4> HIDE DEF job
      <4>4. job.state # "committed"
        BY <4>2
      <4> QED  BY <1>1, <1>3, <4>2, <4>3, <4>4, ProbeChanged
    <3> QED  BY <1>3, <3>1, <3>2, Zenon
  <2>2. UNCHANGED projectVars /\ UNCHANGED exports
    BY <1>3
  <2>3. ProjectGood' /\ ProposalsGood' /\ ExportsGood'
    BY <1>1, <1>3, <2>2, JobsKept, Zenon
  <2>4. LedgerGood'
    <3> DEFINE effect == probes'[r.id].state = "cancelled"
    <3>1. effect \in BOOLEAN
      OBVIOUS
    <3>2. Records(r, Success(r.id, effect, FALSE), 1)
      BY <1>3, Zenon
    <3> HIDE DEF effect
    <3>3. r.id \in Nat
      BY DEF Admitted, Request
    <3> QED  BY <2>3, <3>1, <3>2, <3>3, Announcing
  <2> QED  BY <2>1, <2>3, <2>4, Zenon DEF PartsGood
<1> QED  BY <1>2, <1>3, Zenon DEF ProbeCancel

\* The state of one probe changes, nothing else of it.
LEMMA StateChanged ==
  ASSUME ProbesGood, NEW i \in DOMAIN probes, NEW state \in {"stale", "committed"},
         probes' = [Swept EXCEPT ![i].state = state],
         state = "committed" =>
           /\ probes[i].base = editor.revision
           /\ probes[i].version = source
           /\ ~Expired(probes[i])
  PROVE  ProbesGood' /\ Imported
<1> DEFINE job == [Swept[i] EXCEPT !.state = state]
<1>1. Swept[i] \in ProbeJob /\ i \in DOMAIN Swept
  BY SweptJobs, SweptJob
<1>2. job \in ProbeJob /\ job.task = Swept[i].task /\ job.state = state
  BY <1>1 DEF ProbeJob, Final
<1>3. probes' = [Swept EXCEPT ![i] = job]
  OBVIOUS
<1> HIDE DEF job
<1> QED  BY <1>2, <1>3, ProbeChanged

LEMMA GoingStale ==
  ASSUME NEW r, Admitted(r), r.id \in DOMAIN probes, NEW code \in Codes, GoesStale(r, code)
  PROVE  PartsGood
<1>1. McpInv /\ Beside /\ ProbesGood
  BY Zenon DEF Admitted, McpInv
<1>2. /\ probes' = [Swept EXCEPT ![r.id].state = "stale"]
      /\ UNCHANGED <<projectVars, exports>> /\ KeepsProposals
      /\ Records(r, Failure(code), 1)
  BY DEF GoesStale
<1>3. ProbesGood' /\ Imported
  <2>1. "stale" \in {"stale", "committed"} /\ "stale" # "committed"
    OBVIOUS
  <2> QED  BY <1>1, <1>2, <2>1, StateChanged
<1>4. UNCHANGED projectVars /\ UNCHANGED exports
  BY <1>2
<1>5. ProjectGood' /\ ProposalsGood' /\ ExportsGood'
  BY <1>1, <1>2, <1>4, JobsKept, Zenon
<1>6. LedgerGood'
  BY <1>2, Failing
<1> QED  BY <1>3, <1>5, <1>6, Zenon DEF PartsGood

\* What a probe found is used once, at the revision it was started on, while its time
\* lasts and for the file it read.
LEMMA Importing ==
  ASSUME NEW r, Admitted(r), r.id \in DOMAIN probes, Swept[r.id].state = "ready",
         Current(r), Imports(r)
  PROVE  PartsGood
<1>1. McpInv /\ Beside /\ ProbesGood /\ ProjectGood
  BY Zenon DEF Admitted, McpInv
<1>2. {"media_changed", "invalid_edit"} \subseteq Codes
  BY DEF Codes
<1>3. CASE GoesStale(r, "media_changed")
  BY <1>2, <1>3, GoingStale
<1>4. CASE Refuses(r, "invalid_edit")
  BY <1>2, <1>4, Refusing
<1>5. ASSUME SameFile(Swept[r.id]), probes' = [Swept EXCEPT ![r.id].state = "committed"]
      PROVE  ProbesGood' /\ Imported
  <2>1. probes[r.id] \in ProbeJob /\ Swept[r.id] = SweptProbe(probes[r.id])
    BY <1>1, SweptJobs
  <2>2. ~Expired(probes[r.id]) /\ Swept[r.id].version = probes[r.id].version
    BY <2>1, SweptJob
  <2>3. probes[r.id].base = editor.revision /\ probes[r.id].version = source
    BY <1>5, <2>2 DEF Current, SameFile
  <2>4. "committed" \in {"stale", "committed"}
    OBVIOUS
  <2> QED  BY <1>1, <1>5, <2>2, <2>3, <2>4, StateChanged
<1>6. CASE /\ SameFile(Swept[r.id]) /\ ~Full
           /\ probes' = [Swept EXCEPT ![r.id].state = "committed"]
           /\ (\E next \in Edited : Publishes(next)) /\ KeepsProposals /\ UNCHANGED exports
           /\ Answers(r, TRUE)
  <2>1. PICK next \in Edited : Publishes(next)
    BY <1>6
  <2>4. EditorType(next)
    BY <1>1, <1>6, <2>1, EditedTyped
  <2>2. ProjectGood' /\ LedgerGood'
    BY <1>6, <2>1, <2>4, Publishing
  <2>3. ProposalsGood' /\ ExportsGood'
    BY <1>1, <1>6, JobsKept, Zenon
  <2> QED  BY <1>5, <1>6, <2>2, <2>3, Zenon DEF PartsGood
<1>7. CASE /\ SameFile(Swept[r.id])
           /\ probes' = [Swept EXCEPT ![r.id].state = "committed"]
           /\ UNCHANGED <<projectVars, exports>> /\ KeepsProposals /\ Answers(r, FALSE)
  <2>1. UNCHANGED projectVars /\ UNCHANGED exports
    BY <1>7
  <2>2. ProjectGood' /\ ProposalsGood' /\ ExportsGood'
    BY <1>1, <1>7, <2>1, JobsKept, Zenon
  <2>3. LedgerGood'
    <3>1. FALSE \in BOOLEAN
      OBVIOUS
    <3> QED  BY <1>7, <2>2, <3>1, Answering
  <2> QED  BY <1>5, <1>7, <2>2, <2>3, Zenon DEF PartsGood
<1> QED  BY <1>3, <1>4, <1>6, <1>7, Zenon DEF Imports

LEMMA MediaCommitting ==
  ASSUME NEW r, Admitted(r), MediaCommit(r)
  PROVE  PartsGood
<1> DEFINE codes == {"permission_denied", "job_missing", "invalid_arguments", "job_pending",
                     "job_not_ready"}
<1>1. codes \subseteq Codes /\ "revision_conflict" \in Codes
  BY DEF Codes
<1>2. CASE \E code \in codes : Refuses(r, code)
  BY <1>1, <1>2, Refusing
<1>3. CASE r.id \in DOMAIN probes /\ GoesStale(r, "revision_conflict")
  BY <1>1, <1>3, GoingStale
<1>4. CASE r.id \in DOMAIN probes /\ Swept[r.id].state = "ready" /\ Current(r) /\ Imports(r)
  BY <1>4, Importing
<1> QED  BY <1>2, <1>3, <1>4, Zenon DEF MediaCommit

LEMMA ExportStarting ==
  ASSUME NEW r, Admitted(r), ExportStart(r)
  PROVE  PartsGood
<1>1. McpInv /\ Beside /\ ExportsGood /\ UNCHANGED output
  BY DEF Admitted, McpInv, Beside
<1>2. {"revision_conflict", "job_limit", "output_path_denied"} \subseteq Codes
  BY DEF Codes
<1>3. CASE \E code \in {"revision_conflict", "job_limit"} : Refuses(r, code)
  BY <1>2, <1>3, Refusing
<1> DEFINE job == [id |-> Len(exports) + 1, revision |-> editor.revision,
                   overwrite |-> r.id = 1, version |-> source,
                   stop |-> FALSE, task |-> "starting", status |-> "running"]
<1>4. CASE /\ Len(exports) < MaxExports
           /\ KeepsProposals /\ KeepsProbes /\ UNCHANGED projectVars
           /\ \/ /\ exports' = RefreshedExports
                 /\ \E code \in {"job_limit", "output_path_denied"} :
                      Records(r, Failure(code), 1)
              \/ /\ \A i \in DOMAIN exports : RefreshedExports[i].status # "running"
                 /\ exports' = Append(RefreshedExports, job)
                 /\ Records(r, Success(Len(exports'), FALSE, FALSE), 1)
  <2>1. ProjectGood' /\ ProposalsGood' /\ ProbesGood' /\ Imported
    BY <1>1, <1>4, JobsKept, Zenon
  <2>2. CASE /\ exports' = RefreshedExports
             /\ \E code \in {"job_limit", "output_path_denied"} :
                  Records(r, Failure(code), 1)
    <3>1. ExportsOK(exports') /\ DOMAIN exports' = DOMAIN exports
      BY <1>1, <2>2, AllRefreshed
    <3>2. ExportsGood'
      BY <1>1, <3>1, SameFileThere
    <3>3. LedgerGood'
      BY <1>2, <2>2, Failing
    <3> QED  BY <2>1, <3>2, <3>3, Zenon DEF PartsGood
  <2>3. CASE /\ \A i \in DOMAIN exports : RefreshedExports[i].status # "running"
             /\ exports' = Append(RefreshedExports, job)
             /\ Records(r, Success(Len(exports'), FALSE, FALSE), 1)
    <3>1. Len(exports) \in Nat
      BY <1>1, ExportsTyped DEF ExportsGood
    <3>2. job \in ExportJob /\ job.id = Len(exports) + 1 /\ ReportedAs(job)
      <4>1. editor.revision \in Nat /\ source \in Nat
        BY <1>1, LimitsTyped DEF McpInv, WorldGood, ProjectGood, EditorType
      <4> DEFINE overwrite == r.id = 1
      <4>2. overwrite \in BOOLEAN
        OBVIOUS
      <4> HIDE DEF overwrite
      <4>3. [id |-> Len(exports) + 1, revision |-> editor.revision, overwrite |-> overwrite,
             version |-> source, stop |-> FALSE, task |-> "starting", status |-> "running"]
               \in ExportJob
        BY <3>1, <4>1, <4>2 DEF ExportJob, ExportTasks
      <4>4. job \in ExportJob
        BY <4>3 DEF overwrite
      <4>5. job.status = "running" /\ job.id = Len(exports) + 1
        OBVIOUS
      <4> HIDE DEF job
      <4> QED  BY <4>4, <4>5, Zenon DEF ReportedAs
    <3> HIDE DEF job
    <3>3. ExportsOK(exports') /\ DOMAIN exports \subseteq DOMAIN exports'
      BY <1>1, <1>4, <2>3, <3>2, ExportStarted
    <3>4. ExportsGood'
      BY <1>1, <3>3, SameFileThere
    <3>5. LedgerGood'
      <4> DEFINE id == Len(exports')
      <4>1. id \in Nat
        <5>1. exports' \in Seq(ExportJob)
          BY <3>3 DEF ExportsOK
        <5> QED  BY <5>1, LenProperties
      <4>2. Records(r, Success(id, FALSE, FALSE), 1)
        BY <2>3
      <4>3. FALSE \in BOOLEAN
        OBVIOUS
      <4> HIDE DEF id
      <4> QED  BY <2>1, <4>1, <4>2, <4>3, Announcing
    <3> QED  BY <2>1, <3>4, <3>5, Zenon DEF PartsGood
  <2> QED  BY <1>4, <2>2, <2>3, Zenon
<1> HIDE DEF job
<1> QED  BY <1>3, <1>4, Zenon DEF ExportStart, job

LEMMA ExportCancelling ==
  ASSUME NEW r, Admitted(r), ExportCancel(r)
  PROVE  PartsGood
<1>1. McpInv /\ Beside /\ ExportsGood /\ UNCHANGED output
  BY DEF Admitted, McpInv, Beside
<1>2. CASE Refuses(r, "job_missing")
  <2>1. "job_missing" \in Codes
    BY DEF Codes
  <2> QED  BY <1>2, <2>1, Refusing
<1>3. CASE /\ r.id \in DOMAIN exports
           /\ exports' = [exports EXCEPT ![r.id] = RefreshedExport([@ EXCEPT !.stop = TRUE])]
           /\ KeepsProposals /\ KeepsProbes /\ UNCHANGED projectVars
           /\ Answers(r, FALSE)
  <2>1. ProjectGood' /\ ProposalsGood' /\ ProbesGood' /\ Imported
    BY <1>1, <1>3, JobsKept, Zenon
  <2> DEFINE i == r.id
             asked == [exports[i] EXCEPT !.stop = TRUE]
             job == RefreshedExport(asked)
  <2>2. exports[i] \in ExportJob /\ exports[i].id = i /\ ReportedAs(exports[i])
    BY <1>1, <1>3, ExportsTyped DEF ExportsGood
  <2>3. /\ asked \in ExportJob /\ asked.id = i /\ asked.task = exports[i].task
        /\ asked.status = exports[i].status
    BY <2>2 DEF ExportJob
  <2>4. exports' = [exports EXCEPT ![i] = job]
    BY <1>3, Zenon
  <2> HIDE DEF asked
  <2>5. ReportedAs(asked)
    BY <2>2, <2>3, Zenon DEF ReportedAs, Over
  <2>6. job \in ExportJob /\ job.id = i /\ job.task = exports[i].task /\ ReportedAs(job)
    BY <2>3, <2>5, RefreshedJob
  <2> HIDE DEF job
  <2>7. ~Over(job) => ~Over(exports[i])
    BY <2>6 DEF Over
  <2>8. ExportsOK(exports') /\ DOMAIN exports' = DOMAIN exports
    BY <1>1, <1>3, <2>4, <2>6, <2>7, JobChanged
  <2>9. ExportsGood'
    BY <1>1, <2>8, SameFileThere
  <2>10. LedgerGood'
    <3>1. FALSE \in BOOLEAN
      OBVIOUS
    <3> QED  BY <1>3, <2>1, <3>1, Answering
  <2> QED  BY <2>1, <2>9, <2>10, Zenon DEF PartsGood
<1> QED  BY <1>2, <1>3, Zenon DEF ExportCancel

LEMMA Carrying ==
  ASSUME NEW r, Admitted(r), Run(r)
  PROVE  PartsGood
<1>1. r.tool \in Tools
  BY DEF Admitted, Request
<1>2. CASE r.tool = "edit_preview"
  BY <1>2, Previewing DEF Run
<1>3. CASE r.tool = "edit_commit"
  BY <1>3, Committing DEF Run
<1>4. CASE r.tool = "edit_rollback"
  BY <1>4, RollingBack DEF Run
<1>5. CASE r.tool = "history_undo"
  BY <1>5, UndoingRedoing DEF Run
<1>6. CASE r.tool = "history_redo"
  BY <1>6, UndoingRedoing DEF Run
<1>7. CASE r.tool = "project_save"
  BY <1>7, Saving DEF Run
<1>8. CASE r.tool = "media_probe_start"
  BY <1>8, ProbeStarting DEF Run
<1>9. CASE r.tool = "media_probe_cancel"
  BY <1>9, ProbeCancelling DEF Run
<1>10. CASE r.tool \in {"media_import_commit", "media_relink_commit"}
  BY <1>10, MediaCommitting DEF Run
<1>11. CASE r.tool = "export_start"
  BY <1>11, ExportStarting DEF Run
<1>12. CASE r.tool = "export_cancel"
  BY <1>12, ExportCancelling DEF Run
<1> QED  BY <1>1, <1>2, <1>3, <1>4, <1>5, <1>6, <1>7, <1>8, <1>9, <1>10, <1>11, <1>12 DEF Tools
-----------------------------------------------------------------------------
(* Calls, polls, and what happens beside the session.                      *)

\* Probes that are told to stop, or closed, are those that were there.
LEMMA ProbesReplaced ==
  ASSUME ProbesGood, NEW jobs \in [DOMAIN probes -> ProbeJob], probes' = jobs,
         \A i \in DOMAIN probes :
           /\ jobs[i].task = "running" => probes[i].task = "running"
           /\ jobs[i].state = "committed" => probes[i].state = "committed"
  PROVE  ProbesGood' /\ Imported
<1>1. DOMAIN probes = 1..Len(probes) /\ Len(probes) \in Nat
  BY SweptJobs
<1> DEFINE n == Len(probes)
<1>2. jobs \in [1..n -> ProbeJob] /\ DOMAIN jobs = 1..n
  BY <1>1
<1>3. jobs \in Seq(ProbeJob)
  BY <1>1, <1>2, SeqDef
<1>4. Len(jobs) = n
  BY <1>1, <1>2, <1>3, LenProperties
<1>5. SameRuns(probes, jobs)
  BY <1>1, <1>2, <1>3, <1>4 DEF SameRuns
<1>6. ProbesOK(jobs)
  BY <1>5, NoMoreRuns DEF ProbesGood
<1>7. ProbesOK(probes')
  BY <1>6, Zenon
<1>8. Imported
  BY DEF Imported
<1> QED  BY <1>7, <1>8 DEF ProbesGood

LEMMA Ending ==
  ASSUME McpInv, Beside, StopsEverything
  PROVE  PartsGood
<1>1. /\ ProjectGood /\ ProposalsGood /\ ProbesGood /\ ExportsGood /\ LedgerGood
      /\ UNCHANGED policy /\ UNCHANGED output
  BY DEF McpInv, Beside
<1>2. /\ exports' = [i \in DOMAIN exports |-> [exports[i] EXCEPT !.stop = TRUE]]
      /\ probes' = [i \in DOMAIN probes |->
              Stopped(Swept[i], IF Swept[i].state \in Final THEN Swept[i].state ELSE "stale")]
      /\ KeepsProposals /\ UNCHANGED projectVars /\ UNCHANGED ledgerVars
  BY DEF StopsEverything
<1>3. ExportsGood'
  <2>1. ExportsOK(exports') /\ DOMAIN exports' = DOMAIN exports
    BY <1>1, <1>2, AllStopped
  <2> QED  BY <1>1, <2>1, SameFileThere
<1>4. ProbesGood' /\ Imported
  <2>1. ASSUME NEW i \in DOMAIN probes
        PROVE  LET job == Stopped(Swept[i], IF Swept[i].state \in Final THEN Swept[i].state
                                                                       ELSE "stale")
               IN  /\ job \in ProbeJob
                   /\ job.task = "running" => probes[i].task = "running"
                   /\ job.state = "committed" => probes[i].state = "committed"
    <3>1. probes[i] \in ProbeJob /\ Swept[i] = SweptProbe(probes[i])
      BY <1>1, <2>1, SweptJobs
    <3>2. /\ Swept[i] \in ProbeJob
          /\ Swept[i].task = "running" => probes[i].task = "running"
          /\ Swept[i].state = "committed" => probes[i].state = "committed"
      BY <3>1, SweptJob
    <3> DEFINE state == IF Swept[i].state \in Final THEN Swept[i].state ELSE "stale"
               job == Stopped(Swept[i], state)
    <3>3. state \in Final /\ (state = "committed" => Swept[i].state = "committed")
      BY DEF Final
    <3> HIDE DEF state
    <3>4. job \in ProbeJob /\ job.task = Swept[i].task /\ job.state = state
      BY <3>2, <3>3 DEF Stopped, ProbeJob
    <3> HIDE DEF job
    <3> QED  BY <3>2, <3>3, <3>4 DEF job, state
  <2> DEFINE jobs == [i \in DOMAIN probes |->
              Stopped(Swept[i], IF Swept[i].state \in Final THEN Swept[i].state ELSE "stale")]
  <2>2. jobs \in [DOMAIN probes -> ProbeJob]
    BY <2>1
  <2>3. \A i \in DOMAIN probes :
          /\ jobs[i].task = "running" => probes[i].task = "running"
          /\ jobs[i].state = "committed" => probes[i].state = "committed"
    BY <2>1
  <2>4. probes' = jobs
    BY <1>2
  <2> HIDE DEF jobs
  <2> QED  BY <1>1, <2>2, <2>3, <2>4, ProbesReplaced
<1>5. ProjectGood' /\ ProposalsGood'
  BY <1>1, <1>2, ProjectUntouched, ProposalsKept
<1>6. LedgerGood'
  BY <1>1, <1>2, LedgerUntouched
<1> QED  BY <1>3, <1>4, <1>5, <1>6, Zenon DEF PartsGood

LEMMA Sweeping ==
  ASSUME McpInv, Beside, OnlySweeps
  PROVE  PartsGood
<1>1. /\ UNCHANGED projectVars /\ UNCHANGED ledgerVars
      /\ KeepsProposals /\ KeepsProbes /\ UNCHANGED exports
  BY DEF OnlySweeps, KeepsJobs
<1>2. LedgerGood /\ UNCHANGED policy
  BY DEF McpInv, Beside
<1>3. LedgerGood'
  BY <1>1, <1>2, LedgerUntouched
<1> QED  BY <1>1, <1>3, JobsKept, Zenon DEF PartsGood

LEMMA Replaying ==
  ASSUME McpInv, Beside, NEW r, Answered(r), Replays(r)
  PROVE  PartsGood
<1>1. UNCHANGED projectVars /\ KeepsProposals /\ KeepsProbes /\ UNCHANGED exports
  BY DEF Replays, KeepsJobs
<1>2. LedgerGood /\ UNCHANGED policy
  BY DEF McpInv, Beside
<1>3. LedgerGood'
  BY <1>2, RequestReplayed
<1> QED  BY <1>1, <1>3, JobsKept, Zenon DEF PartsGood

\* What a client makes up is a request of the right form, under a new key.
LEMMA RequestsTyped ==
  ASSUME McpInv, NEW r \in NewRequests
  PROVE  r \in Request /\ r.key = Len(memos) + 1
<1>1. PICK tool \in policy.tools : r \in {[key |-> Len(memos) + 1, tool |-> tool,
                                          expected |-> expected, id |-> id] :
            expected \in policy.saved..editor.revision, id \in Ids(tool)}
  BY SMT DEF NewRequests
<1>2. PICK expected \in policy.saved..editor.revision, id \in Ids(tool) :
        r = [key |-> Len(memos) + 1, tool |-> tool, expected |-> expected, id |-> id]
  BY <1>1, SMT
<1>3. tool \in Tools /\ expected \in Nat
  <2>1. policy.tools \subseteq Tools /\ policy.saved \in 0..MaxOperations
    BY PolicyTyped, Zenon DEF McpInv
  <2>2. editor.revision \in Nat
    BY LimitsTyped DEF McpInv, ProjectGood, EditorType
  <2> QED  BY <1>1, <1>2, <2>1, <2>2, LimitsTyped
<1>4. Len(memos) + 1 \in Nat
  BY MemosTyped DEF McpInv
<1>5. id \in Nat
  <2>1. Len(probes) \in Nat
    BY SweptJobs DEF McpInv
  <2>2. Len(exports) \in Nat
    BY ExportsTyped DEF McpInv, ExportsGood
  <2>3. nextProposal \in Nat
    BY DEF McpInv, ProposalsGood, Held
  <2>4. CASE tool \in {"edit_commit", "edit_rollback"}
    BY <1>2, <2>3, <2>4 DEF Ids
  <2>5. CASE tool \in {"media_probe_cancel", "media_import_commit", "media_relink_commit"}
    BY <1>2, <2>1, <2>5 DEF Ids
  <2>6. CASE tool = "export_cancel"
    BY <1>2, <2>2, <2>6 DEF Ids
  <2>7. CASE tool = "export_start"
    BY <1>2, <2>7 DEF Ids
  <2>8. CASE tool = "media_probe_start"
    BY <1>2, <2>8 DEF Ids
  <2>9. CASE tool \in {"edit_preview", "history_undo", "history_redo", "project_save"}
    BY <1>2, <2>9 DEF Ids
  <2> QED  BY <1>3, <2>4, <2>5, <2>6, <2>7, <2>8, <2>9 DEF Tools
<1>6. r.key = Len(memos) + 1
  BY <1>2
<1>7. r \in Request
  BY <1>2, <1>3, <1>4, <1>5 DEF Request
<1> QED  BY <1>6, <1>7

\* A request is carried out only under a key that is not on record: a new one.
LEMMA Handling ==
  ASSUME McpInv, Beside, NEW r \in NewRequests \cup OldRequests, Handles(r)
  PROVE  PartsGood
<1>1. CASE StopsEverything
  BY <1>1, Ending
<1>2. CASE Answered(r) /\ Replays(r)
  BY <1>2, Replaying
<1>3. CASE OnlySweeps
  BY <1>3, Sweeping
<1>4. CASE ~Recorded(r) /\ Fits(r.tool) /\ Run(r)
  <2>1. CASE r \in NewRequests
    <3>1. Admitted(r)
      BY <1>4, <2>1, RequestsTyped, Zenon DEF Admitted
    <3> QED  BY <1>4, <3>1, Carrying
  <2>2. CASE r \in OldRequests
    <3>1. PICK other \in DOMAIN memos, key \in DOMAIN memos :
                 r = [memos[other].request EXCEPT !.key = key]
      BY <2>2, SMT DEF OldRequests
    <3>2. memos[other].request \in Request
      <4>1. memos[other] \in Memo
        BY MemosTyped DEF McpInv
      <4> QED  BY <4>1, Zenon DEF Memo
    <3>3. r.key = key
      BY <3>1, <3>2 DEF Request
    <3> QED  BY <1>4, <3>1, <3>3, Zenon DEF Recorded
  <2> QED  BY <2>1, <2>2
<1> QED  BY <1>1, <1>2, <1>3, <1>4, Zenon DEF Handles

LEMMA Polling ==
  ASSUME McpInv, Poll
  PROVE  PartsGood
<1>1. Beside
  BY DEF Poll, Beside
<1>2. CASE StopsEverything
  BY <1>1, <1>2, Ending
<1>3. CASE OnlySweeps
  BY <1>1, <1>3, Sweeping
<1>4. CASE /\ \E i \in DOMAIN exports : exports' = [exports EXCEPT ![i] = RefreshedExport(@)]
           /\ KeepsProposals /\ KeepsProbes /\ UNCHANGED <<projectVars, ledgerVars>>
  <2>1. ExportsGood /\ LedgerGood /\ UNCHANGED policy /\ UNCHANGED output
    BY <1>1 DEF McpInv, Beside
  <2>2. PICK i \in DOMAIN exports : exports' = [exports EXCEPT ![i] = RefreshedExport(@)]
    BY <1>4
  <2> DEFINE job == RefreshedExport(exports[i])
  <2>3. exports[i] \in ExportJob /\ exports[i].id = i /\ ReportedAs(exports[i])
    BY <2>1, ExportsTyped DEF ExportsGood
  <2>4. job \in ExportJob /\ job.id = i /\ job.task = exports[i].task /\ ReportedAs(job)
    BY <2>3, RefreshedJob
  <2>5. exports' = [exports EXCEPT ![i] = job]
    BY <2>2, Zenon
  <2> HIDE DEF job
  <2>6. ~Over(job) => ~Over(exports[i])
    BY <2>4 DEF Over
  <2>7. ExportsOK(exports') /\ DOMAIN exports' = DOMAIN exports
    BY <2>1, <2>4, <2>5, <2>6, JobChanged
  <2>8. ExportsGood'
    BY <2>1, <2>7, SameFileThere
  <2>9. UNCHANGED projectVars /\ UNCHANGED ledgerVars
    BY <1>4
  <2>10. LedgerGood'
    BY <2>1, <2>9, LedgerUntouched
  <2> QED  BY <1>1, <1>4, <2>8, <2>9, <2>10, JobsKept, Zenon DEF PartsGood
<1> QED  BY <1>2, <1>3, <1>4, Zenon DEF Poll

\* The clock, the handshake and the media file leave the session's tables alone.
LEMMA TablesUntouched ==
  ASSUME McpInv, UNCHANGED policy, UNCHANGED projectVars, UNCHANGED proposalVars,
         UNCHANGED ledgerVars
  PROVE  /\ ProjectGood' /\ ProposalsGood' /\ LedgerGood'
         /\ UNCHANGED probes => ProbesGood' /\ Imported
         /\ UNCHANGED <<exports, output>> => ExportsGood'
<1>1. ProjectGood /\ ProposalsGood /\ ProbesGood /\ ExportsGood /\ LedgerGood
  BY Zenon DEF McpInv
<1>2. ProjectGood' /\ ProposalsGood' /\ LedgerGood'
  BY <1>1, ProjectUntouched, ProposalsUntouched, LedgerUntouched
<1>3. UNCHANGED probes => ProbesGood' /\ Imported
  BY <1>1, ProbesUntouched, Zenon
<1>4. UNCHANGED <<exports, output>> => ExportsGood'
  BY <1>1, ExportsUntouched, Zenon
<1> QED  BY <1>2, <1>3, <1>4

\* What ExportsAsReported says of the file at the destination.
Installed ==
  (output' # output /\ output' # Foreign) =>
    /\ exports'[output'].task = "installed"
    /\ output # Absent => exports'[output'].overwrite

LEMMA Advancing ==
  ASSUME McpInv, NEW i, ExportAdvances(i)
  PROVE  PartsGood /\ Installed
<1>1. /\ UNCHANGED policy /\ UNCHANGED projectVars /\ UNCHANGED proposalVars
      /\ UNCHANGED ledgerVars /\ UNCHANGED probes
      /\ i \in DOMAIN exports /\ ~Over(exports[i]) /\ ExportsGood
  BY DEF ExportAdvances, McpInv
<1>2. ProjectGood' /\ ProposalsGood' /\ LedgerGood' /\ ProbesGood' /\ Imported
  BY <1>1, TablesUntouched
<1>3. PICK outcome \in Advances(exports[i], source, output) :
             exports' = [exports EXCEPT ![i] = outcome.job] /\ output' = outcome.output
  BY Zenon DEF ExportAdvances
<1>4. /\ exports[i] \in ExportJob /\ exports[i].id = i /\ ReportedAs(exports[i])
      /\ exports \in Seq(ExportJob)
  BY <1>1, ExportsTyped DEF ExportsGood
<1>5. source \in Nat
  BY LimitsTyped DEF McpInv, WorldGood
<1>6. /\ outcome.job \in ExportJob /\ outcome.job.id = i /\ ReportedAs(outcome.job)
      /\ outcome.job.overwrite = exports[i].overwrite
      /\ outcome.output # output => /\ outcome.job.task = "installed"
                                    /\ outcome.output = i
                                    /\ output = Absent \/ exports[i].overwrite
  BY <1>1, <1>3, <1>4, <1>5, StageDone
<1> DEFINE job == outcome.job
<1> HIDE DEF job
<1>7. ExportsOK(exports') /\ DOMAIN exports' = DOMAIN exports
  <2>1. /\ job \in ExportJob /\ job.id = i /\ ReportedAs(job)
        /\ exports' = [exports EXCEPT ![i] = job]
    BY <1>3, <1>6 DEF job
  <2> QED  BY <1>1, <2>1, JobChanged
<1>8. output' \in {Absent, Foreign} \cup DOMAIN exports'
  BY <1>1, <1>3, <1>6, <1>7 DEF ExportsGood
<1>9. Installed
  <2>1. SUFFICES ASSUME output' # output
                 PROVE  /\ exports'[output'].task = "installed"
                        /\ output # Absent => exports'[output'].overwrite
    BY DEF Installed
  <2>2. output' = i /\ exports'[i] = outcome.job
    BY <1>1, <1>3, <1>4, <1>6, <2>1
  <2> QED  BY <1>3, <1>6, <2>1, <2>2
<1> QED  BY <1>2, <1>7, <1>8, <1>9 DEF PartsGood, ExportsGood

LEMMA ProbeEnding ==
  ASSUME McpInv, NEW i, ProbeEnds(i)
  PROVE  PartsGood
<1>1. /\ UNCHANGED policy /\ UNCHANGED projectVars /\ UNCHANGED proposalVars
      /\ UNCHANGED ledgerVars /\ UNCHANGED <<exports, output>>
      /\ i \in DOMAIN probes /\ ProbesGood
  BY DEF ProbeEnds, McpInv
<1>2. ProjectGood' /\ ProposalsGood' /\ LedgerGood' /\ ExportsGood'
  BY <1>1, TablesUntouched
<1>3. PICK task \in {"done", "failed"}, version \in {source, probes[i].version} :
        probes' = [probes EXCEPT ![i] = [@ EXCEPT !.task = task, !.version = version]]
  <2>1. CASE probes' = [probes EXCEPT ![i].task = "done", ![i].version = source]
    BY <2>1
  <2>2. CASE probes' = [probes EXCEPT ![i].task = "failed"]
    <3>1. probes[i] \in ProbeJob
      BY <1>1, SweptJobs
    <3>2. [probes[i] EXCEPT !.task = "failed"]
            = [probes[i] EXCEPT !.task = "failed", !.version = probes[i].version]
      BY <3>1 DEF ProbeJob
    <3> QED  BY <2>2, <3>2
  <2> QED  BY <2>1, <2>2 DEF ProbeEnds
<1>8. source \in Nat
  BY DEF McpInv, WorldGood
<1>4. \A k \in DOMAIN probes : probes[k] \in ProbeJob
  BY <1>1, SweptJobs
<1> DEFINE jobs == [probes EXCEPT ![i] = [@ EXCEPT !.task = task, !.version = version]]
<1>5. /\ jobs \in [DOMAIN probes -> ProbeJob]
      /\ \A k \in DOMAIN probes :
           /\ jobs[k].task = "running" => probes[k].task = "running"
           /\ jobs[k].state = "committed" => probes[k].state = "committed"
  <2>1. probes = [k \in DOMAIN probes |-> probes[k]]
    BY <1>1 DEF ProbesGood, ProbesOK
  <2> DEFINE job == [probes[i] EXCEPT !.task = task, !.version = version]
  <2>2. job \in ProbeJob /\ job.task # "running" /\ job.state = probes[i].state
    BY <1>1, <1>3, <1>4, <1>8 DEF ProbeJob
  <2>3. jobs = [probes EXCEPT ![i] = job]
    OBVIOUS
  <2> HIDE DEF job
  <2> QED  BY <1>1, <1>4, <2>1, <2>2, <2>3
<1>6. probes' = jobs
  BY <1>3
<1> HIDE DEF jobs
<1>7. ProbesGood' /\ Imported
  BY <1>1, <1>5, <1>6, ProbesReplaced
<1> QED  BY <1>2, <1>7, Zenon DEF PartsGood

LEMMA ProbesStopping ==
  ASSUME McpInv, StopsProbes
  PROVE  PartsGood
<1>1. /\ UNCHANGED policy /\ UNCHANGED projectVars /\ UNCHANGED proposalVars
      /\ UNCHANGED ledgerVars /\ UNCHANGED <<exports, output>> /\ ProbesGood
      /\ probes' = [i \in DOMAIN probes |-> [probes[i] EXCEPT !.stop = TRUE]]
  BY DEF StopsProbes, McpInv
<1>2. ProjectGood' /\ ProposalsGood' /\ LedgerGood' /\ ExportsGood'
  BY <1>1, TablesUntouched
<1>3. ASSUME NEW i \in DOMAIN probes
      PROVE  LET job == [probes[i] EXCEPT !.stop = TRUE]
             IN  /\ job \in ProbeJob /\ job.task = probes[i].task
                 /\ job.state = probes[i].state
  <2>1. probes[i] \in ProbeJob
    BY <1>1, SweptJobs
  <2> QED  BY <2>1 DEF ProbeJob
<1> DEFINE jobs == [i \in DOMAIN probes |-> [probes[i] EXCEPT !.stop = TRUE]]
<1>4. /\ jobs \in [DOMAIN probes -> ProbeJob]
      /\ \A i \in DOMAIN probes :
           /\ jobs[i].task = "running" => probes[i].task = "running"
           /\ jobs[i].state = "committed" => probes[i].state = "committed"
  BY <1>3
<1>5. probes' = jobs
  BY <1>1
<1> HIDE DEF jobs
<1>6. ProbesGood' /\ Imported
  BY <1>1, <1>4, <1>5, ProbesReplaced
<1> QED  BY <1>2, <1>6, Zenon DEF PartsGood

LEMMA Start ==
  ASSUME Init
  PROVE  McpInv
<1>1. /\ phase = "new" /\ policy \in Policies /\ now = 0 /\ source = 0
      /\ saved = policy.saved /\ recovery = [revision |-> None, error |-> FALSE]
      /\ proposals = <<>> /\ proposalBytes = 0 /\ nextProposal = 0
      /\ probes = <<>> /\ exports = <<>> /\ output \in {Absent, Foreign}
      /\ memos = <<>> /\ memoBytes = 0 /\ told = {} /\ acted = {} /\ reserveUsed = FALSE
  BY DEF Init
<1>2. WorldGood
  BY <1>1, LimitsTyped DEF WorldGood
<1>3. PICK revision \in {saved} \cup {r \in {saved + 1} : policy.recovery /\ r <= MaxOperations} :
             /\ editor = [revision |-> revision, undo |-> 0, redo |-> 0]
             /\ files = [project |-> saved,
                         checkpoint |-> IF revision = saved THEN None ELSE revision]
  BY Zenon DEF Init
<1>4. saved \in 0..MaxOperations /\ saved \in Nat
  BY <1>1, <1>2, PolicyTyped, LimitsTyped
<1>5. revision \in 0..MaxOperations /\ revision \in Nat
  BY <1>3, <1>4, LimitsTyped
<1>6. EditorType(editor)
  <2>1. editor.undo = 0 /\ editor.redo = 0
    BY <1>3
  <2>2. editor \in [revision : 0..MaxOperations, undo : 0..HistoryEntries, redo : 0..HistoryEntries]
    BY <1>3, <1>5, LimitsTyped
  <2> QED  BY <2>1, <2>2, LimitsTyped DEF EditorType
<1>7. ProjectGood
  <2>1. /\ recovery \in [revision : Nat \cup {None}, error : BOOLEAN]
        /\ files \in [project : Nat, checkpoint : Nat \cup {None}]
    BY <1>1, <1>3, <1>4, <1>5
  <2>2. HonestAboutFiles
    BY <1>1, <1>3 DEF HonestAboutFiles
  <2> QED  BY <1>4, <1>6, <2>1, <2>2, Zenon DEF ProjectGood
<1>8. DOMAIN proposals = {} /\ Len(probes) = 0 /\ Len(exports) = 0 /\ Len(memos) = 0
      /\ DOMAIN probes = {} /\ DOMAIN exports = {} /\ DOMAIN memos = {}
      /\ probes \in Seq(ProbeJob) /\ exports \in Seq(ExportJob) /\ memos \in Seq(Memo)
  BY <1>1, EmptySeq, LenProperties
<1>9. Cardinality({}) = 0
  BY FS_EmptySet
<1>10. ProposalsGood
  <2>1. proposals \in [DOMAIN proposals -> Proposal]
    BY <1>1, <1>8
  <2>2. Bytes(proposals) = 0
    <3>1. AllUnits(proposals) = {}
      BY <1>8 DEF AllUnits
    <3> QED  BY <1>9, <3>1, BytesAreUnits
  <2> QED  BY <1>1, <1>8, <1>9, <2>1, <2>2, LimitsTyped DEF ProposalsGood, Held
<1>11. ProbesGood
  <2>1. Running(probes) = {}
    BY <1>8 DEF Running
  <2> QED  BY <1>8, <1>9, <2>1, LimitsTyped DEF ProbesGood, ProbesOK
<1>12. ExportsGood
  <2>1. Underway(exports) = {}
    BY <1>8 DEF Underway
  <2>2. Cardinality(Underway(exports)) <= 1 /\ Len(exports) <= MaxExports
    BY <1>8, <1>9, <2>1, LimitsTyped
  <2>3. \A i \in DOMAIN exports : exports[i].id = i /\ ReportedAs(exports[i])
    BY <1>8, Zenon
  <2>4. output \in {Absent, Foreign} \cup DOMAIN exports
    BY <1>1
  <2> QED  BY <1>8, <2>2, <2>3, <2>4, Zenon DEF ExportsGood, ExportsOK
<1>13. LedgerGood
  <2>1. Consistent
    BY <1>1, <1>8 DEF Consistent
  <2>2. policy.requests \in Nat /\ policy.memo \in Nat /\ policy.memo >= 2
    BY <1>2, PolicyTyped
  <2>3. SaveReserved
    BY <1>1, <1>8, <2>2 DEF SaveReserved, Fits, EntryLimit, Reserve
  <2>4. Len(memos) <= policy.requests + 1 /\ memoBytes \in 0..policy.memo
    BY <1>1, <1>8, <2>2
  <2>5. reserveUsed \in BOOLEAN
    BY <1>1
  <2> QED  BY <1>8, <2>1, <2>3, <2>4, <2>5, Zenon DEF LedgerGood
<1> QED  BY <1>2, <1>7, <1>10, <1>11, <1>12, <1>13, Zenon DEF McpInv

\* Every step keeps the invariant, and does what the two action properties say.
LEMMA StepKeepsInv ==
  ASSUME McpInv, [Next]_vars
  PROVE  McpInv' /\ Imported /\ Installed
<1>1. /\ phase \in {"new", "initialized", "ready", "stoppingExports", "stoppingProbes", "closed"}
      /\ policy \in Policies /\ now \in 0..SessionLife /\ source \in 0..MaxChanges
  BY DEF McpInv, WorldGood
<1>2. UNCHANGED output => Installed
  BY DEF Installed
<1>3. PartsGood /\ WorldGood' => McpInv' /\ Imported
  BY Zenon DEF PartsGood, McpInv
<1>4. Beside => WorldGood' /\ UNCHANGED output
  BY <1>1 DEF Beside, WorldGood
<1>5. ASSUME UNCHANGED <<policy, projectVars, output, proposalVars, probes, exports,
                         ledgerVars>>
      PROVE  PartsGood /\ Installed
  <2>1. /\ UNCHANGED policy /\ UNCHANGED projectVars /\ UNCHANGED proposalVars
        /\ UNCHANGED ledgerVars /\ UNCHANGED probes /\ UNCHANGED <<exports, output>>
        /\ UNCHANGED output
    BY <1>5
  <2> QED  BY <1>2, <2>1, TablesUntouched, Zenon DEF PartsGood
<1>6. CASE Handshake
  <2>1. WorldGood'
    BY <1>1, <1>6 DEF Handshake, WorldGood
  <2>2. PartsGood /\ Installed
    BY <1>5, <1>6 DEF Handshake
  <2> QED  BY <1>3, <2>1, <2>2, Zenon
<1>7. CASE Call
  <2>1. Beside
    BY <1>7 DEF Call, Beside
  <2>2. PICK r \in NewRequests \cup OldRequests : Handles(r)
    BY <1>7, Zenon DEF Call
  <2>3. PartsGood
    BY <2>1, <2>2, Handling
  <2> QED  BY <1>2, <1>3, <1>4, <2>1, <2>3, Zenon
<1>8. CASE Poll
  <2>1. Beside
    BY <1>8 DEF Poll, Beside
  <2>2. PartsGood
    BY <1>8, Polling
  <2> QED  BY <1>2, <1>3, <1>4, <2>1, <2>2, Zenon
<1>9. CASE Tick
  <2>1. WorldGood'
    BY <1>1, <1>9, LimitsTyped DEF Tick, WorldGood
  <2>2. PartsGood /\ Installed
    BY <1>5, <1>9 DEF Tick
  <2> QED  BY <1>3, <2>1, <2>2, Zenon
<1>10. CASE SourceChanges
  <2>1. WorldGood'
    BY <1>1, <1>10, LimitsTyped DEF SourceChanges, WorldGood
  <2>2. PartsGood /\ Installed
    BY <1>5, <1>10 DEF SourceChanges
  <2> QED  BY <1>3, <2>1, <2>2, Zenon
<1>11. CASE \E i \in 1..MaxProbes : ProbeEnds(i)
  <2>1. PICK i \in 1..MaxProbes : ProbeEnds(i)
    BY <1>11
  <2>2. WorldGood' /\ UNCHANGED output
    BY <1>1, <2>1 DEF ProbeEnds, WorldGood
  <2>3. PartsGood
    BY <2>1, ProbeEnding
  <2> QED  BY <1>2, <1>3, <2>2, <2>3, Zenon
<1>12. CASE OutputAppears
  <2>1. WorldGood' /\ Installed
    BY <1>1, <1>12 DEF OutputAppears, WorldGood, Installed
  <2>2. /\ UNCHANGED policy /\ UNCHANGED projectVars /\ UNCHANGED proposalVars
        /\ UNCHANGED ledgerVars /\ UNCHANGED probes /\ UNCHANGED exports /\ output' = Foreign
    BY <1>12 DEF OutputAppears
  <2>3. ExportsGood'
    BY <2>2 DEF McpInv, ExportsGood
  <2>4. PartsGood
    BY <2>2, <2>3, TablesUntouched, Zenon DEF PartsGood
  <2> QED  BY <1>3, <2>1, <2>4, Zenon
<1>13. CASE \E i \in 1..MaxExports : ExportAdvances(i)
  <2>1. PICK i \in 1..MaxExports : ExportAdvances(i)
    BY <1>13
  <2>2. WorldGood'
    BY <1>1, <2>1 DEF ExportAdvances, WorldGood
  <2>3. PartsGood /\ Installed
    BY <2>1, Advancing
  <2> QED  BY <1>3, <2>2, <2>3, Zenon
<1>14. CASE EndOfInput
  <2>1. WorldGood' /\ UNCHANGED output
    BY <1>1, <1>14 DEF EndOfInput, StopsExports, WorldGood
  <2>2. /\ UNCHANGED policy /\ UNCHANGED projectVars /\ UNCHANGED proposalVars
        /\ UNCHANGED ledgerVars /\ UNCHANGED probes
        /\ exports' = [i \in DOMAIN exports |-> [exports[i] EXCEPT !.stop = TRUE]]
        /\ ExportsGood
    BY <1>14 DEF EndOfInput, StopsExports, McpInv
  <2>3. ExportsGood'
    <3>1. ExportsOK(exports') /\ DOMAIN exports' = DOMAIN exports
      BY <2>2, AllStopped
    <3> QED  BY <2>1, <2>2, <3>1, SameFileThere
  <2>4. PartsGood
    BY <2>2, <2>3, TablesUntouched, Zenon DEF PartsGood
  <2> QED  BY <1>2, <1>3, <2>1, <2>4, Zenon
<1>15. CASE StopsProbes
  <2>1. WorldGood' /\ UNCHANGED output
    BY <1>1, <1>15 DEF StopsProbes, WorldGood
  <2>2. PartsGood
    BY <1>15, ProbesStopping
  <2> QED  BY <1>2, <1>3, <2>1, <2>2, Zenon
<1>16. CASE Exits
  <2>1. WorldGood'
    BY <1>1, <1>16 DEF Exits, WorldGood
  <2>2. PartsGood /\ Installed
    BY <1>5, <1>16 DEF Exits
  <2> QED  BY <1>3, <2>1, <2>2, Zenon
<1>17. CASE UNCHANGED vars
  <2>1. WorldGood'
    BY <1>1, <1>17 DEF vars, WorldGood
  <2>2. PartsGood /\ Installed
    BY <1>5, <1>17 DEF vars
  <2> QED  BY <1>3, <2>1, <2>2, Zenon
<1> QED  BY <1>6, <1>7, <1>8, <1>9, <1>10, <1>11, <1>12, <1>13, <1>14, <1>15, <1>16, <1>17,
            Zenon DEF Next

-----------------------------------------------------------------------------
(* The theorems.                                                           *)

\* The invariant of all parts holds for every policy, every limit and every client.
THEOREM McpInvariance == Spec => []McpInv
<1>1. Init => McpInv
  BY Start
<1>2. McpInv /\ [Next]_vars => McpInv'
  BY StepKeepsInv
<1> QED  BY <1>1, <1>2, PTL DEF Spec

\* A request is carried out at most once, however often it is sent, and always gets the
\* same answer.
THEOREM RequestsActOnce == Spec => []ExactlyOnce
<1>1. ASSUME McpInv PROVE ExactlyOnce
  <2>1. /\ \A key \in DOMAIN memos : memos[key].result.code = "ok" => memos[key] \in acted
        /\ \A a \in acted \cup told : a.request.key \in DOMAIN memos /\ memos[a.request.key] = a
    BY <1>1 DEF McpInv, LedgerGood, Consistent
  <2>2. ASSUME NEW a \in acted, NEW b \in acted, a.request.key = b.request.key PROVE a = b
    <3>1. memos[a.request.key] = a /\ memos[b.request.key] = b
      BY <2>1, <2>2, Zenon
    <3> QED  BY <2>2, <3>1
  <2>3. ASSUME NEW a \in told, a.result.code = "ok" PROVE a \in acted
    BY <2>1, <2>3, Zenon
  <2>4. ASSUME NEW a \in told, NEW b \in told, a.request = b.request
        PROVE  a.result = b.result
    <3>1. memos[a.request.key] = a /\ memos[b.request.key] = b
      BY <2>1, <2>4, Zenon
    <3> QED  BY <2>4, <3>1
  <2> QED  BY <2>2, <2>3, <2>4, Zenon DEF ExactlyOnce
<1> QED  BY <1>1, McpInvariance, PTL

\* The ledger never fills so far that no save is admitted.
THEOREM SaveStaysPossible == Spec => []SaveReserved
<1>1. McpInv => SaveReserved
  BY Zenon DEF McpInv, LedgerGood
<1> QED  BY <1>1, McpInvariance, PTL

\* What the session says of the project file and its checkpoint is so.
THEOREM FilesReportedAsTheyAre == Spec => []HonestAboutFiles
<1>1. McpInv => HonestAboutFiles
  BY Zenon DEF McpInv, ProjectGood
<1> QED  BY <1>1, McpInvariance, PTL

\* No table, no sum of bytes and no number of processes passes its limit, and the
\* session does not lose count of them.
THEOREM LimitsKept == Spec => []WithinLimits
<1>1. ASSUME McpInv PROVE WithinLimits
  <2>1. WorldGood /\ ProjectGood /\ ProposalsGood /\ ProbesGood /\ ExportsGood /\ LedgerGood
    BY <1>1 DEF McpInv
  <2>2. /\ nextProposal \in Nat /\ proposalBytes \in 0..MaxProposalBytes
        /\ proposalBytes = Bytes(proposals) /\ DOMAIN proposals \subseteq 1..nextProposal
        /\ Cardinality(DOMAIN proposals) <= MaxProposals
        /\ \A id \in DOMAIN proposals : proposals[id] \in Proposal
    BY <2>1 DEF ProposalsGood, Held
  <2>3. Len(probes) <= MaxProbes /\ \A i \in DOMAIN probes : probes[i] \in ProbeJob
    BY <2>1, SweptJobs DEF ProbesGood, ProbesOK
  <2>4. Len(exports) <= MaxExports /\ \A i \in DOMAIN exports : exports[i] \in ExportJob
    BY <2>1, ExportsTyped DEF ExportsGood, ExportsOK
  <2>5. /\ Len(memos) <= policy.requests + 1 /\ memoBytes \in 0..policy.memo
        /\ \A key \in DOMAIN memos : memos[key] \in [request : Request, result : Result]
        /\ reserveUsed \in BOOLEAN
    BY <2>1, MemosTyped DEF LedgerGood, Memo
  <2>6. TypeOK
    BY <2>1, <2>2, <2>3, <2>4, <2>5, Zenon
       DEF TypeOK, WorldGood, ProjectGood, EditorType, ExportsGood
  <2>7. WorkersBounded
    BY <2>1, Zenon
       DEF WorkersBounded, ProbesGood, ProbesOK, Running, ExportsGood, ExportsOK, Underway
  <2> QED  BY <2>6, <2>7 DEF WithinLimits
<1> QED  BY <1>1, McpInvariance, PTL

\* An import or relink happens at the revision its probe was started on, in its time,
\* with facts about the file as it is.
THEOREM ImportsAreFresh == Spec => ImportsWhatWasProbed
<1>1. McpInv /\ [Next]_vars => [Imported]_vars
  BY StepKeepsInv
<1> QED  BY <1>1, McpInvariance, PTL DEF Spec, ImportsWhatWasProbed, Imported

\* An export is reported as succeeded exactly if it installed its file, and takes no
\* file away that it may not replace.
THEOREM ExportsToldTruly == Spec => ExportsAsReported
<1> DEFINE Truly ==
      /\ \A i \in DOMAIN exports' : exports'[i].status # "running" =>
           (exports'[i].status = "succeeded" <=> exports'[i].task = "installed")
      /\ (output' # output /\ output' # Foreign) =>
           /\ exports'[output'].task = "installed"
           /\ output # Absent => exports'[output'].overwrite
<1>1. ASSUME McpInv, [Next]_vars PROVE Truly
  <2>1. McpInv' /\ Installed
    BY <1>1, StepKeepsInv
  <2>2. \A i \in DOMAIN exports' : ReportedAs(exports'[i])
    BY <2>1 DEF McpInv, ExportsGood, ExportsOK
  <2> QED  BY <2>1, <2>2, Zenon DEF ReportedAs, Installed
<1>2. McpInv /\ [Next]_vars => [Truly]_vars
  BY <1>1
<1> QED  BY <1>2, McpInvariance, PTL DEF Spec, ExportsAsReported
=============================================================================
