------------------------------ MODULE SessionSync ------------------------------
(***************************************************************************)
(* The copy of a conversation that a desktop pane shows                    *)
(* (host/store.ts sync and save, host/sync-transfer.ts,                    *)
(* features/connections/model/connections.ts and protocol.ts, and the poll *)
(* and the drafts of features/connections/ui/RemoteSession.tsx).           *)
(*                                                                         *)
(* A pane polls the host for what has changed since the revision it shows. *)
(* The host stamps each block with the revision that changed it last, and  *)
(* answers with the blocks stamped later, or with the whole conversation.  *)
(* An answer too large for one response is kept as a transfer, which the   *)
(* pane reads in pieces while the conversation goes on changing; there are *)
(* few transfers, they expire, and other clients take them too.            *)
(*                                                                         *)
(* One conversation and one pane that stays on it.  A conversation only    *)
(* moves forward: the host's database is not replaced by an older one.     *)
(***************************************************************************)
EXTENDS Naturals, FiniteSets, Sequences, SequencesExt, FiniteSetsExt

CONSTANTS
    Block,          \* 1..n: identifiers of blocks, 1 the first one
    MaxTransfers,   \* MAX_TRANSFERS
    MaxRevision,    \* revisions of the conversation (bound)
    MaxUpsets       \* lost answers, other clients' transfers, expiries, host
                    \* restarts and changes of the pane, together (bound)

ASSUME BlockAssumption == Block \subseteq Nat \ {0} /\ 1 \in Block /\ IsFiniteSet(Block)
ASSUME BoundsAssumption ==
    MaxTransfers \in Nat \ {0} /\ MaxRevision \in Nat \ {0} /\ MaxUpsets \in Nat

VARIABLES
    stored,     \* the host: the conversation with its blockRevisions
    transfers,  \* the host: SyncTransfers, oldest first
    shown,      \* snapshotRef
    poll,       \* the polls in progress; the second is of an effect torn down
    receipt,    \* the answer to a draft that the pane waits for
    past,       \* history: every conversation stored
    own,        \* history: the drafts the pane has sent
    upsets

host == <<stored, transfers, past>>
pane == <<shown, poll, receipt, own>>
vars == <<host, pane, upsets>>

Undefined == MaxRevision + 1    \* no revision; a later one has the same effect
Revision == 0..MaxRevision
Content == [id : Block, text : Revision, draft : BOOLEAN]
View == [revision : Revision \cup {Undefined}, blocks : Seq(Content)]
Nothing == [revision |-> Undefined, blocks |-> <<>>]
NoSync == [kind |-> "none", base |-> Undefined, revision |-> Undefined,
           ids |-> <<>>, blocks |-> <<>>]
Sync == [kind : {"none", "unchanged", "snapshot", "delta"},
         base : Revision \cup {Undefined}, revision : Revision \cup {Undefined},
         ids : Seq(Block), blocks : Seq(Content)]
Length == 2                     \* pieces of a large sync
Slot == {1, 2}
TransferId == 1..MaxTransfers + Cardinality(Slot) + 1
NoPoll == [stage |-> "idle", known |-> Nothing, whole |-> FALSE, answer |-> NoSync,
           transfer |-> 0, pieces |-> <<>>]
NoReceipt == [id |-> 0, revision |-> Undefined]

TypeOK ==
    /\ stored \in [revision : Revision, blocks : Seq(Content),
                   stamps : UNION {[B -> Revision] : B \in SUBSET Block}, stamped : BOOLEAN]
    /\ transfers \in Seq([id : TransferId, own : BOOLEAN, text : Sync])
    /\ Len(transfers) <= MaxTransfers
    /\ \A i, j \in DOMAIN transfers : transfers[i].id = transfers[j].id => i = j
    /\ shown \in View
    /\ poll \in [Slot -> [stage : {"idle", "asked", "reading", "answered"}, known : View,
                          whole : BOOLEAN, answer : Sync, transfer : {0} \cup TransferId,
                          pieces : Seq(Sync)]]
    /\ \A p \in Slot : Len(poll[p].pieces) < Length
    /\ receipt \in [id : {0} \cup Block, revision : Revision \cup {Undefined}]
    /\ past \subseteq View /\ own \subseteq Content
    /\ upsets \in 0..MaxUpsets

First == [id |-> 1, text |-> 1, draft |-> FALSE]
\* The conversation may have been stored by a host that stamped no blocks.
Init ==
    /\ \E stamped \in BOOLEAN :
          stored = [revision |-> 1, blocks |-> <<First>>,
                    stamps |-> [b \in {c \in {1} : stamped} |-> 1], stamped |-> stamped]
    /\ transfers = <<>>
    /\ shown = Nothing /\ poll = [p \in Slot |-> NoPoll] /\ receipt = NoReceipt
    /\ past = {[revision |-> 1, blocks |-> <<First>>]}
    /\ own = {} /\ upsets = 0

Upset == upsets < MaxUpsets /\ upsets' = upsets + 1

-----------------------------------------------------------------------------
(* The host saves *)

Holds(blocks, id) == \E i \in DOMAIN blocks : blocks[i].id = id
Drafted(blocks) == \E i \in DOMAIN blocks : blocks[i].draft

\* blocks.filter(...): those that are in S, in order.
Kept(blocks, S) ==
    LET kept[n \in 0..Len(blocks)] ==
            IF n = 0 THEN <<>>
            ELSE IF blocks[n] \in S THEN Append(kept[n - 1], blocks[n]) ELSE kept[n - 1]
    IN  kept[Len(blocks)]
Undrafted(blocks) == Kept(blocks, {b \in ToSet(blocks) : ~b.draft})

\* Mutant: a block keeps its stamp when its content changes.
blockRevisionsById(previous, blocks, revision) ==
    [id \in {b.id : b \in ToSet(blocks)} |->
        IF Holds(previous.blocks, id) /\ id \in DOMAIN previous.stamps
        THEN previous.stamps[id] ELSE revision]
\* An unchanged block keeps its stamp.
blockRevisions(previous, blocks, revision) ==
    [id \in {b.id : b \in ToSet(blocks)} |->
        IF /\ \E b \in ToSet(blocks) : b.id = id /\ b \in ToSet(previous.blocks)
           /\ id \in DOMAIN previous.stamps
        THEN previous.stamps[id] ELSE revision]

save(blocks) ==
    LET revision == stored.revision + 1
    IN  /\ revision <= MaxRevision
        /\ stored' = [revision |-> revision, blocks |-> blocks, stamped |-> TRUE,
                      stamps |-> blockRevisions(stored, blocks, revision)]
        /\ past' = past \cup {[revision |-> revision, blocks |-> blocks]}

\* Identifiers no conversation has had.
UnusedBlocks == {b \in Block : \A v \in past : ~Holds(v.blocks, b)}
NewBlock(draft) ==
    [id |-> Min(UnusedBlocks), text |-> stored.revision + 1, draft |-> draft]

\* A turn adds a block, dropping the draft it starts from, or changes one;
\* another client saves a draft.
Change ==
    /\ \/ /\ UnusedBlocks # {}
          /\ save(Append(Undrafted(stored.blocks), NewBlock(FALSE)))
       \/ \E i \in DOMAIN stored.blocks :
             /\ ~stored.blocks[i].draft
             /\ save([stored.blocks EXCEPT ![i].text = stored.revision + 1])
       \/ /\ UnusedBlocks # {} /\ ~Drafted(stored.blocks)
          /\ save(Append(stored.blocks, NewBlock(TRUE)))
    /\ UNCHANGED <<transfers, pane, upsets>>

\* The command "removeDraft".
RemoveDraft ==
    /\ Drafted(stored.blocks)
    /\ save(Undrafted(stored.blocks))
    /\ UNCHANGED <<transfers, pane, upsets>>

\* The command "draft", sent by the pane; its answer is on its way.
Draft ==
    /\ receipt = NoReceipt /\ UnusedBlocks # {} /\ Upset
    /\ ~Drafted(stored.blocks)
    /\ save(Append(stored.blocks, NewBlock(TRUE)))
    /\ receipt' = [id |-> Min(UnusedBlocks), revision |-> stored.revision + 1]
    /\ own' = own \cup {NewBlock(TRUE)}
    /\ UNCHANGED <<transfers, shown, poll>>

-----------------------------------------------------------------------------
(* The host answers *)

\* HostStore.sync.
sync(revision) ==
    IF revision = stored.revision
    THEN [NoSync EXCEPT !.kind = "unchanged", !.revision = revision, !.base = revision]
    ELSE IF revision > stored.revision \/ ~stored.stamped
    THEN [NoSync EXCEPT !.kind = "snapshot", !.revision = stored.revision,
                        !.blocks = stored.blocks]
    ELSE [kind |-> "delta", base |-> revision, revision |-> stored.revision,
          ids |-> [i \in DOMAIN stored.blocks |-> stored.blocks[i].id],
          blocks |-> Kept(stored.blocks, {b \in ToSet(stored.blocks) : stored.stamps[b.id] > revision})]

\* Mutant: only expired transfers go.
prune_expired(list) == list
\* prune: the oldest transfer makes room.  (Expire removes an expired one.)
prune(list) == IF Len(list) >= MaxTransfers THEN Tail(list) ELSE list

UnusedTransfer ==
    Min(TransferId \ ({t.id : t \in ToSet(transfers)} \cup {poll[p].transfer : p \in Slot}))

\* SyncTransfers.respond: inline, or a transfer to read in pieces.
respond(p) ==
    LET answer == sync(IF poll[p].whole THEN Undefined ELSE poll[p].known.revision)
    IN  /\ poll[p].stage = "asked"
        /\ \/ /\ poll' = [poll EXCEPT ![p].stage = "answered", ![p].answer = answer]
              /\ UNCHANGED transfers
           \/ /\ answer.kind # "unchanged"
              /\ transfers' = Append(prune(transfers),
                    [id |-> UnusedTransfer, own |-> TRUE, text |-> answer])
              /\ poll' = [poll EXCEPT ![p].stage = "reading", ![p].transfer = UnusedTransfer]
        /\ UNCHANGED <<stored, past, shown, receipt, own, upsets>>

OfPoll(p) == {i \in DOMAIN transfers : transfers[i].id = poll[p].transfer /\ transfers[i].own}

\* The pieces of one text: its head and its blocks.
Assembled(first, last) == [first EXCEPT !.blocks = last.blocks]

\* SyncTransfers.chunk: the last piece deletes the transfer.
chunk(p) ==
    /\ poll[p].stage = "reading"
    /\ \E i \in OfPoll(p) :
          LET text == transfers[i].text
          IN  IF Len(poll[p].pieces) + 1 < Length
              THEN /\ poll' = [poll EXCEPT ![p].pieces = Append(@, text)]
                   /\ UNCHANGED transfers
              ELSE /\ poll' = [poll EXCEPT ![p].stage = "answered", ![p].transfer = 0,
                                           ![p].pieces = <<>>,
                                           ![p].answer = Assembled(poll[p].pieces[1], text)]
                   /\ transfers' = RemoveAt(transfers, i)
    /\ UNCHANGED <<stored, past, shown, receipt, own, upsets>>

\* Another client, or another pane, reads a large sync.
Foreign ==
    /\ Upset
    /\ transfers' = Append(prune(transfers),
          [id |-> UnusedTransfer, own |-> FALSE, text |-> NoSync])
    /\ UNCHANGED <<stored, past, pane>>

\* Two minutes without a read.
Expire(i) ==
    /\ Upset /\ transfers' = RemoveAt(transfers, i)
    /\ UNCHANGED <<stored, past, pane>>

HostRestarts ==
    /\ Upset /\ transfers # <<>> /\ transfers' = <<>>
    /\ UNCHANGED <<stored, past, pane>>

-----------------------------------------------------------------------------
(* The pane polls *)

\* poll, up to its request.
Ask ==
    /\ poll[1].stage = "idle"
    /\ poll' = [poll EXCEPT ![1] = [NoPoll EXCEPT !.stage = "asked", !.known = shown]]
    /\ UNCHANGED <<host, shown, receipt, own, upsets>>

\* applySessionSync, Nothing when it throws.
applySessionSync(known, s) ==
    LET held == ToSet(known.blocks)
        sent == ToSet(s.blocks)
        from(id) == IF \E b \in sent : b.id = id THEN sent ELSE held
    IN  IF s.kind = "snapshot" THEN [revision |-> s.revision, blocks |-> s.blocks]
        ELSE IF known.revision # s.base THEN Nothing
        ELSE IF s.kind = "unchanged" THEN known
        ELSE IF \E i \in DOMAIN s.ids : \A b \in from(s.ids[i]) : b.id # s.ids[i] THEN Nothing
        ELSE [revision |-> s.revision,
              blocks |-> [i \in DOMAIN s.ids |->
                             CHOOSE b \in from(s.ids[i]) : b.id = s.ids[i]]]

\* Mutant: the answer to a poll of an effect torn down is shown.
DeliverStale(p) ==
    LET next == applySessionSync(poll[p].known, poll[p].answer)
    IN  /\ poll[p].stage = "answered"
        /\ shown' = next
        /\ poll' = [poll EXCEPT ![p] = NoPoll]
        /\ UNCHANGED <<host, receipt, own, upsets>>

\* The answer is applied to what the poll asked for; when it does not apply
\* the whole conversation is requested.  A stale poll drops it.
Deliver(p) ==
    LET next == applySessionSync(poll[p].known, poll[p].answer)
    IN  /\ poll[p].stage = "answered"
        /\ IF next = Nothing
           THEN /\ poll' = [poll EXCEPT ![p] = [NoPoll EXCEPT !.stage = "asked",
                                                              !.whole = TRUE]]
                /\ UNCHANGED shown
           ELSE /\ poll' = [poll EXCEPT ![p] = NoPoll]
                /\ shown' = IF p = 1 THEN next ELSE shown
        /\ UNCHANGED <<host, receipt, own, upsets>>

\* Mutant: the poll keeps its transfer and asks for the rest again.
GoneAsksAgain(p) ==
    /\ poll[p].stage = "reading" /\ OfPoll(p) = {}
    /\ poll' = [poll EXCEPT ![p].pieces = <<>>]
    /\ UNCHANGED <<host, shown, receipt, own, upsets>>
\* "Session transfer expired; reload the session": the poll fails, and the
\* next one starts anew.
Gone(p) ==
    /\ poll[p].stage = "reading" /\ OfPoll(p) = {}
    /\ poll' = [poll EXCEPT ![p] = NoPoll]
    /\ UNCHANGED <<host, shown, receipt, own, upsets>>

\* A request or an answer is lost.
Lost(p) ==
    /\ Upset /\ poll[p].stage # "idle"
    /\ poll' = [poll EXCEPT ![p] = NoPoll]
    /\ UNCHANGED <<host, shown, receipt, own>>

\* The effect is set up again: the poll in progress is stale from now on.
Restarted == [poll EXCEPT ![1] = NoPoll, ![2] = poll[1]]
Refresh ==
    /\ Upset /\ poll[1].stage # "idle" /\ poll[2].stage = "idle"
    /\ poll' = Restarted
    /\ UNCHANGED <<host, shown, receipt, own>>

\* A conversation with a draft added to it, in place of any other.
WithDraft(v, b) ==
    [revision |-> IF v = Nothing THEN 0 ELSE v.revision,
     blocks |-> Append(Kept(v.blocks, {c \in ToSet(v.blocks) : ~c.draft /\ c.id # b.id}), b)]

\* The answer to a draft: it is shown before a sync brings it, at the revision
\* the pane has, and the effect starts again.  The answer may be late, and the
\* draft gone.  (Bound: at most one poll of an effect torn down.)
DraftAnswered ==
    /\ receipt # NoReceipt /\ poll[2].stage = "idle"
    /\ shown' = WithDraft(shown, [id |-> receipt.id, text |-> receipt.revision, draft |-> TRUE])
    /\ receipt' = NoReceipt
    /\ poll' = Restarted
    /\ UNCHANGED <<host, own, upsets>>

Polls(p) == respond(p) \/ chunk(p) \/ Deliver(p) \/ Gone(p)

Next ==
    \/ Change \/ RemoveDraft \/ Draft \/ DraftAnswered
    \/ Ask \/ Refresh
    \/ \E p \in Slot : Polls(p) \/ Lost(p)
    \/ Foreign \/ HostRestarts
    \/ \E i \in DOMAIN transfers : Expire(i)

\* The timer starts every poll, a poll that runs makes progress, and a request
\* has an answer in the end.
Spec == Init /\ [][Next]_vars /\ WF_vars(Ask) /\ WF_vars(Polls(1))

-----------------------------------------------------------------------------
(* Properties *)

Current == [revision |-> stored.revision, blocks |-> stored.blocks]

\* v is a conversation of S, or one with a draft of the pane's own added.
UpToDraft(v, S) == v \in S \/ \E c \in S, b \in own : v = WithDraft(c, b)

\* What the pane shows is a conversation the host stored, block by block and in
\* order, whatever the host changed while deltas and pieces were on their way;
\* only a draft of the pane's own may be shown that is not in it yet, or not
\* any more.
ShownWasStored == UpToDraft(shown, past \cup {Nothing})

\* The pane never goes back to an earlier revision: the answer to a poll that
\* another has overtaken is dropped.
NeverBackward ==
    [][shown # Nothing => shown'.revision \in Revision /\ shown'.revision >= shown.revision]_vars

\* Once the conversation rests the pane shows it, although a delta was lost, a
\* transfer was evicted, has expired or lost its last piece, or the host
\* restarted.  A draft whose answer was late may stay until the next change.
Converges == <>[]UpToDraft(shown, {Current})
=============================================================================
