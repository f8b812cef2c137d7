# Verification of GOLF-GUFF

GOLF-GUFF routes a request to a model slot, executes it under budgets, records
what happened, and lets a human grant, delegate and revoke the authority to do
the dangerous parts. Almost every promise the repository makes ("durable intent
precedes side effects", "one-shot authority", "revocation survives restart") is
about append-only journals: several objects, in one or several processes, read a
file, decide, and append one line. This directory models those journals, the
protocols built on them and the loop that runs a child process in TLA+, checks
them with TLC on small instances, and proves their safety properties with TLAPS
for every value of the constants.

Code is named by its file in the repository's `src/` and `include/guff/`
(`src/src/x.cpp` where a line is quoted: the checkout is the directory `src/`);
`docs/` and `README.md` are the repository's own.

## 1. Inventory

### 1.1 Components, their state and their operations

| Component | State | Operations that change it | What makes it correct |
|---|---|---|---|
| Session journal (`session_journal.cpp`) | the journal file; nothing in memory | `begin`, `begin_recovery_child`, `finish`, `recover` | a record reported as stored is read by every later scan of a healthy journal; one session begins once and closes once; a reserved recovery child is started only with the proof that reserved it |
| Execution session (`execution_session.cpp`) | one run: BEGIN, route, slot, ZENKAI loop, artifacts, DOJO episode, COMMIT or ABORT | `run` | the BEGIN precedes every effect; a session is executed at most once; COMPLETED means committed and stored |
| Recovery protocol (`recovery_protocol.cpp`) | none of its own: journal + authority ledger | `decide` | one receipt, one decision; one decision per interrupted session; closure is never invented |
| Authority ledger (`authority_ledger.cpp`) | maps of keys, uses, reservations, revocations, nonces, lineage in memory, replayed from a journal at construction | `trust_key`, `retire_key`, `revoke_key`, `revoke_receipt`, `register_delegation`, `authorize_and_consume` | budgets are conserved over delegation trees, restarts and processes; acknowledged uses and revocations are never lost |
| Authority receipts, delegation, gate (`authority_receipt.cpp`, `authority_delegation.cpp`, `authority_gate.cpp`) | none | pure builders and checks; `authorize` calls the ledger | an envelope says what was signed; a child is strictly weaker than its parent |
| Session keys (`session_key.cpp`) | maps replayed from a second journal | `register_bundle`, `consume`, `revoke`, hand-off, gate `authorize` | a key is used within its bundle and only with its backing receipt |
| Runtime leases (`runtime_lease.cpp`) | maps replayed from a third journal | `register_lease`, `consume`, `revoke_lease`, gate `authorize` | the same one level down: no use without a use of its key |
| Runtime attestation (`runtime_attestation.cpp`) | none | `attest`, attested gate `authorize` | fresh evidence for the challenge and the context before a lease is consumed |
| Runtime identity store (`runtime_identity_store.cpp`) | devices, executables, processes, attestations, revocations, replayed from a journal | `record_attestation`, the revocations | a revoked identity is never accepted again; capacity |
| Policy registry (`policy_registry.cpp`, `policy_registry_query.cpp`) | the journal file | `register_policy`, `apply_control` (activate, roll back, revoke) | at most one active policy, never a revoked one; compare-and-set on the active policy |
| Policy engine (`policy_engine.cpp`) | none | `evaluate` | of the rules that match, the most severe effect wins; no match refuses |
| Operator console (`operator_console.cpp`) | a bounded queue file | `enqueue`, `close` | an item is closed once; the bound holds |
| Symbiosis ledger (`symbiosis_ledger.cpp`) | grants, stamps, promotions in memory; persistent part replayed from a journal | `create_grant`, `revoke_grant`, `stamp_observation`, `promote_memory`, `forget_promotion`, `replay` | revoked stays revoked, forgotten stays forgotten, a replay keeps the stamps memory kept |
| DOJO and scorecard stores (`dojo.cpp`, `scorecard.cpp`, `scorecard_store.cpp`) | append-only files | `append`, `replay`, `hydrate` | an episode is stored once |
| ZENKAI, FORGE, CLUBHOUSE, CADDY | budgets and counters of one call | `run`, `execute`, `invoke`, `route` | budgets hold; the decision is the documented one |
| Native process executor (`native_process.cpp`) | a child process, a pipe, a deadline | `run` | one outcome; the child is always reaped |
| Others: data leech, artifact vault, GGUF bridge, kernel task, replay proof, model identity, benchmark, hardware profile, release gates, SHA-256, command lines | files, digests, reports | I/O and string processing | not protocols; see section 8 |

`PROJECT.json` lists them all with the files and the status of each.

### 1.2 How they interact

    request --> ExecutionSession.run --BEGIN--> SessionJournal (file)
                   | route (CADDY), slot (CLUBHOUSE), ZENKAI(FORGE(executor))
                   | episode --> DojoStore (file)
                   +--COMMIT / ABORT--> SessionJournal

    human receipt --> RecoveryDecisionProtocol.decide
                         | inspect: SessionJournal
                         | AuthorityGate.authorize --> AuthorityLedger (file)
                         +--DISMISS / RETRY--> SessionJournal
                                                  |
                    RETRY reserves a child: run with parent + authorization

    AttestedRuntimeLeaseAuthorityGate --> RuntimeIdentityStore (file)
         --> RuntimeLeaseAuthorityGate --> SessionKeyAuthorityGate
         --> AuthorityLedger   (three more journals, in turn)

    RegistryBackedPolicyEngine --> SignedPolicyRegistry (file), twice
         --> DeclarativePolicyEngine --HUMAN_REVIEW--> OperatorConsole
         --> SignedPolicyRegistry, OperatorReviewQueue (file)

    ZenkaiLoop --> ForgeAdapter --> NativeLocalProcessExecutor --> child process

Everything is a synchronous call; there are no threads or messages in the
library. Concurrency comes from the child process a parent polls and kills, and
from several objects or processes that open the same file: none of the stores
locks it, and each separates its scan (or its replay at construction) from its
append. Failure comes from appends that fail
half-way and from processes that die between two steps.

### 1.3 Hard behaviours

`PROJECT.json`, "hazards", lists them line by line. They fall into six groups:

1. scan, decide, append is not atomic (session journal, policy registry,
   operator queue, DOJO store);
2. memory is replayed once and then trusted (authority ledger, session keys,
   leases, identity store, symbiosis ledger);
3. an append that fails leaves a part of a line, which the next append completes
   to one malformed line (every journal);
4. two journals are written in turn with a possible crash in between (recovery,
   gate chain, gated symbiosis);
5. numeric edges: use budgets with reservations, retention limits, capacities;
6. a child process races its deadline, its output ceiling and its last drain.

## 2. Plan

| Order | Modules | Abstract specification | Runs | Theorems | State |
|---|---|---|---|---|---|
| 1 | `SessionJournal` | `SessionLifecycle` | `journal` | all of its properties, the refinement included | proved |
| 2 | `ExecutionSession`, `RecoveryProtocol` (over `SessionJournal`) | - | `recovery`, `burned_receipt` | all invariants of the run | proved |
| 3 | `AuthorityLedger` | `AuthorityBudget` | `authority_chain`, `authority_processes`, `shared_nonce` | all invariants, `RevocationHonored`, the refinement | proved |
| 4 | `SymbiosisLedger` | - | `symbiosis`, `forget_repromoted` | all invariants of the run | proved |
| 5 | `GateChain` over `SessionKeyLedger`, `RuntimeLeaseLedger` and `AuthorityBudget` | `AuthorityBudget`, which `AuthorityLedger` implements | `gate_chain` | all invariants, `RevocationsHold` | proved |
| 6 | `PolicyDesk` over `PolicyRegistry`, `PolicyEngine` and `ReviewQueue` | `PolicyRegister` | `policy` | all invariants, the refinement | proved |
| 7 | `AttestedGate` over `RuntimeIdentityStore` | - | `attested_gate` | all invariants, `RevokedForGood` | proved |
| 8 | `VerifiedLoop` over `NativeProcess` | - | `loops` | `VerifiedIsEarned`; `RunEnds` is liveness | proved, checked |

What is left to prove better: the refinement of `AuthorityBudget` by what is
left of processes that do share a journal, and an abstract specification of
sessions and recovery together, above `SessionLifecycle`.

Every module is written so that it can be proved about: parameters are
CONSTANTS under a named ASSUME, one action per operation, no RECURSIVE operator
(`AuthorityLedger!Above` is a least fixed point for that reason).

## 3. Modules

| Module | Models | How |
|---|---|---|
| `SessionLifecycle` | what the journal promises, atomically | sessions are absent, open, closed; correlations are used or promised |
| `SessionJournal` | `session_journal.cpp` | `disk`/`view` are the result of `scan_journal`; `pending[c]` is the line process c has built and not appended |
| `ExecutionSession` | `ExecutionSessionOrchestrator::run` | extends `SessionJournal`; `job[c].step` is the place in `run` |
| `RecoveryProtocol` | `RecoveryDecisionProtocol::decide` | extends `ExecutionSession`; `spent` is what the authority ledger has recorded, one ledger whose consumption is one step (processes with stale ledgers are `AuthorityLedger`'s); `overlapped` and `left` are history |
| `AuthorityLedger` | `authority_ledger.cpp` | a *book* holds the maps; `mem[i]` is the book of process i, `disk`/`view` what replay makes of the journal |
| `AuthorityBudget` | what `authority_ledger.cpp` promises to those it says ALLOWED to | uses and delegations that were granted, never more than was signed |
| `SymbiosisLedger` | `symbiosis_ledger.cpp` | books again; replay skips bad lines instead of stopping; stamps are kept by grant and promotions by id, as every search of the two vectors is |
| `JournalFile` | the file under the session-key, lease, identity, policy and review journals | `disk`, `view` and what a failed append leaves |
| `SessionKeyLedger`, `RuntimeLeaseLedger` | `session_key.cpp`, `runtime_lease.cpp` | one operator per operation: its guard and its line; `keyMem`, `leaseMem` are the maps of the running process |
| `GateChain` | `SessionKeyAuthorityGate`, `RuntimeLeaseAuthorityGate`, `AuthoritySessionKeyHandoff` | `call.at` is the place in the nested `authorize` calls; the process may die at each |
| `RuntimeIdentityStore` | `runtime_identity_store.cpp` | a book holds attestations and revocations; records follow from the attestations |
| `AttestedGate` | `AttestedRuntimeLeaseAuthorityGate` behind `IdentityTrackingRuntimeAttestationProvider` | `call.at` again; the inner provider may return any evidence |
| `PolicyRegistry` | `policy_registry.cpp` | `Scan` is `scan_registry`; `regPending[o]` is the line process o has built and not appended |
| `PolicyRegister` | what the registry promises, atomically | one active policy, replaced only by a control that names it |
| `PolicyEngine` | `DeclarativePolicyEngine::evaluate` | the loop over the rules as a fold; `Intended` and `Reported` state the documented answer without an order |
| `ReviewQueue` | `OperatorReviewQueue` | as `PolicyRegistry` |
| `PolicyDesk` | `RegistryBackedPolicyEngine::evaluate` and `OperatorConsole` | three scans of the registry, in turn, while others change it |
| `NativeProcess` | `run_posix` and `ForgeOutputSink` | the parent's loop, the child, the pipe in blocks, the clock |
| `VerifiedLoop` | `ZenkaiLoop::run`, the attempts of `ExecutionSessionOrchestrator::run`, `ForgeAdapter::execute` | `loop.at` is the place in the attempt; the verdict is computed from the child's state |
| `SessionProofs` | | theorems about `SessionJournal`, `ExecutionSession`, `RecoveryProtocol` |
| `AuthorityLedgerProofs`, `SymbiosisProofs`, `GateChainProofs`, `PolicyProofs`, `AttestedGateProofs`, `VerifiedLoopProofs` | | theorems about the module each is named after |
| `FoldLemmas` | | sums over finite sets, for the budgets of `AuthorityLedgerProofs` and `GateChainProofs` |
| `MC...` | | instances for TLC |

**The journal as the result of its scan.** `scan_journal` and the two `replay`
functions fold one step over the lines. Reading a longer file is therefore one
more step, and the models keep the result of the fold: `ScanLine`, `ReplayLine`
and `ReplayEvent` are the bodies of those loops. The file has two readings.
`disk` counts the lines that end with a newline; `view` also counts what follows
the last newline, because `std::getline` returns it too. Operations see `view`;
what the next append builds on is `disk`.

**What a failed append leaves.** `Faults` is any subset of "lost" (no byte
arrived), "torn" (a part that does not parse or whose checksum is wrong) and
"whole" (a part that is accepted, at most the newline missing). The following
successful append is glued to what was left, and the two make one line that no
reader accepts; that spoils the file (`session_journal`, `authority_ledger`) or
is one skipped line (`symbiosis_ledger`). A crash inside an append is one of
these, or a complete line nobody was told about.

**Interleaving.** In `SessionJournal` an operation is two steps: scan and check
(`Begin`, `Finish`, ...), then `Append`, and any number of processes overlap, in
the runs of sessions and decisions too. In `AuthorityLedger` the state that is read early is the
memory of each process, so an operation is one step on a memory that may be
stale. `PolicyRegistry` and `ReviewQueue` separate scan and append like the
session journal. `SymbiosisLedger`, the gate chain and the identity store are
opened by one process at a time; within it a call of the gates is a step per
ledger operation, and death, failed appends and the clock come in between.

**Assumptions made throughout.** SHA-256 has no collisions, and nobody edits the
files: a line whose sequence number fits then carries the right previous hash.
A field that replay limits and the operations do not is part of the model (the
length of a signature in `PolicyRegistry`, `long`); the other limits are checked
by the operations as well, or by the append, before anything is written.
Requests that are refused for their own shape (a malformed id, a signature that
does not verify, a wrong purpose) change nothing and are left out. An
authorization digest, the receipt and its scope are one value in
`RecoveryProtocol`. In `ExecutionSession` one session may be submitted with or
without recovery lineage although its digest covers the lineage: that only adds
behaviours. The clocks of the ledgers may be set back; the time the callers
pass to the symbiosis ledger goes forward.

**History variables** never guard an action: `acked`, `effects`, `returned`
(what callers were told or what happened), `overlapped`, `left`, `shared`, `grants`, `killed`,
`revoked`, `gone`, `allowed`, `handed`, `struck`, `since`, `own`.
`mishaps` and `failures` count failures for a property and are capped by a bound.

## 4. What the runs check

| Run | Instance | Shows |
|---|---|---|
| `journal` | 3 sessions, 2 correlations, 1 authorization, 2 unlocked processes, all faults (782,456 states) | `AckedDurable`, `OneWinner`, `StartedWithProof`, `LineageSound`, `FailureIsFinal`, and that the terminated lines implement `SessionLifecycle` |
| `recovery` | 2 sessions (either may be the other's recovery child), 2 correlations, 2 receipts, 2 processes whose operations overlap and that crash anywhere, all faults (1,438,388 states) | `DurableIntent`, `ExecutedOnce`, `OneOutcome`, `NoInventedClosure`, `OneDecision` |
| `authority_chain` | root, child, grandchild with budgets 4, 2, 1; one process at a time; 2 times; all faults (112,880 states) | `MemoryIsJournal`, `AcknowledgedCounts`, `RevocationHonored`, and that the ledger implements `AuthorityBudget` |
| `authority_processes` | a parent with budget 3, its child, and a receipt with the parent's nonce; two processes at once (150,037 states) | `AcknowledgedCounts`, `BudgetKept`, `OneReceiptPerNonce`, `RevocationHonored` |
| `symbiosis` | one persistent grant that keeps one stamp, one in-memory grant; 3 observations, 2 memories (92,431 states) | `ReplayRestores`, `RevocationSticks`, `ForgottenStaysForgotten`, `PromotionsAllowed` |
| `gate_chain` | a root receipt, two branches that want one ephemeral key, two leases under the first, one of which expires before its branch; 2 times; 2 runtimes; all faults (662,264 states) | `UsesAreBacked`, `OnlyFailuresBurn`, `OneBranchPerKey`, `RevocationsHold` |
| `attested_gate` | a store with room for one device, two executables, two processes and two attestations; 4 pieces of evidence of which one contradicts another and one does not fit; 3 times (933,888 states) | `PersistedBeforePrivilege`, `ReplayAgrees`, `RevokedForGood` |
| `policy` | 2 policies with rules that disagree, 3 nonces, 2 processes, 5 registry lines, 2 queue lines, signatures of either length, one request that several rules of each policy match; torn and whole tails (1,147,468 states) | `Acknowledged`, `WritesReplay`, `EngineAnswers`, and that the registry implements `PolicyRegister` |
| `loops` | budgets that end a run by attempts, tools or evidence; a pipe of 2 blocks into a sink of 2, read block by block; a deadline of 2 ticks; an executor that may be missing or throw (293,281 states) | `VerifiedIsEarned` and, under fairness, `RunEnds` |
| `burned_receipt`, `shared_nonce`, `forget_repromoted` | the same modules | the findings of section 7 |

What the properties do and do not promise is part of the result:

* **Uncoordinated writers.** Two processes may both be told that conflicting
  records are stored (`journal`). What saves the journal is that the second one
  carries a used sequence number: the next scan reports corruption.
  `AckedDurable` and `OneWinner` are therefore conditional on a healthy scan,
  and `FailureIsFinal` says that there is no way back.
* **Sessions and recovery over a journal that breaks.** Nothing in `src/` keeps
  two processes out of the journal at once (the documentation plans single-writer
  assertions, `docs/OPERATOR_CONTROL_SURFACE.md:68`, `docs/RING_STATUS_L25.md:9`),
  and a line that a failed append leaves complete but for its newline is counted
  until the next append loses it. Both happen in `recovery`, and the properties
  say what is true all the same. Two runs of one request may get past BEGIN
  together and execute twice; the journal then reads as damaged for good, and
  that is the only way (`ExecutedOnce`; `OneDecision` says it of two decisions
  about one session). A COMMIT left without its newline closes a session whose
  run reported JOURNAL_STORE_FAILED; `NoInventedClosure` lists the lines that
  can close a session, those in `left` among them, and what must have happened
  before each. What was acknowledged is read back (`DurableIntent`,
  `OneOutcome`) while the journal is `Reliable`: it reads as healthy, or nothing
  happened to it but crashes, lost and torn appends, which damage it without
  taking a line away. An unhealthy journal after an overlap or a whole tail may
  have lost acknowledged lines, and no operation decides from it.
* **A long signature ends a registry.** Replay refuses a signature of more than
  8192 bytes (`policy_registry.cpp:252`); no operation does. `WritesReplay` says
  that this is all replay refuses of what the operations write, and that it is
  always refused; `Acknowledged` that no healthy scan follows (section 7).
* **Stale ledgers.** Overlapping authority ledgers may over-use a receipt, each
  from its own memory; their lines collide and the journal is refused from then
  on. `BudgetKept`, `AcknowledgedCounts` and `RevocationHonored` are stated of
  the books a decision can still be taken from (`Known`).
* **Symbiosis skips lines.** A bad line may hide a revocation; `replay` reports
  it. `RevocationSticks` and `ForgottenStaysForgotten` hold of books whose replay
  returned true.

* **Failures between journals cost authority, never grant it.** In `gate_chain` a
  use of a lease implies a use of its key and one of its voucher, in every book
  that can be read; the reverse fails by one for every failure. The authority
  ledger is taken as `AuthorityBudget` there: it may refuse at any time and
  never grants more than was signed. `authority_chain` shows that
  `AuthorityLedger` is such a ledger.
* **One process opens the gate ledgers at a time.** Two processes with stale
  memories would over-use keys and leases as they do receipts; that race is
  explored once, for the authority ledger.
* **A policy answers if it was active during the evaluation.** The engine scans
  twice and then evaluates its own document, so a policy replaced after the
  second scan still answers. `EngineAnswers` says what remains true.
* **RevokedForGood is about new evidence.** Evidence recorded before the
  revocation is described in section 7.

**Bounds.** The sets above are bounds. `AuthorityChain.cfg` explores journals of
up to `ChainLines` = 7 lines (a key, two delegations, three uses and one more:
the shortest in which all three receipts are used and one is revoked or
exhausted), `AuthorityProcesses.cfg` up to `PairLines` = 5, both with at most
one revocation (`Struck`); `MCSymbiosisLedger` allows `MaxPromotions` = 3 entries
for a memory in one book, enough for it to be promoted, forgotten and promoted
again, and once more. The journal run has three sessions so that a parent, its child
and an intruder can race for two correlations. The session journal needs no
bound on its length: every counted line begins or closes one of the sessions.
`MCGateChain` has journals of up to `Lines` = 6 lines (a branch, two uses, a
revocation and two more), one acknowledged revocation and `MaxMishaps` = 3
failures: one for each journal of a call. `MCAttestedGate` has `MaxFailures` = 2;
its store is full after two attestations. `MCPolicyDesk` has `MaxFailures` = 1,
and `MaxRecords` = 5 (both policies, activated, replaced, and rolled back) and
`MaxQueueRecords` = 2 are the code's own budgets, so that they are reached.
In `MCVerifiedLoop` the sink is as large as the pipe, so that a child can fill
it before it is drained once, and time after the deadline is not told apart.
Symmetry permutes names that no constant distinguishes, and is used in runs
without liveness only.

Every property has a mutant in `PROJECT.json`: a one-line variation of a modelled
definition, kept beside it in its module and marked "mutated", under which TLC
finds the property violated.

## 5. Fairness and liveness

The stores promise no progress and none is claimed of them: they have no
scheduler, no background work and no retries. Every operation is a call that
returns, and nothing in the code forces a caller to make the next one. An
interrupted session may stay interrupted for ever; that is by design ("closure
is never invented").

`VerifiedLoop` is different: `docs/ZENKAI_LOOP.md` says that a run always exits
with a reason, and `docs/NATIVE_PROCESS_EXECUTOR.md` that a child that crosses a
ceiling is terminated. `RunEnds` states both, under weak fairness of three
things: the calling thread, which is one sequential program that is never
disabled except in a blocking `waitpid`; the clock; and the kernel's delivery of
a SIGKILL that was sent. Nothing is assumed of the child or of a descendant that
holds the pipe: they may hang, or write for ever. Nothing is assumed of the
caller, who need not run another request. The retry factory and the verifier are
the caller's code and are taken to return. That the last drain ends although a
descendant keeps writing is not assumed: the sink is bounded, and a full sink
ends the drain.

`CHECK_DEADLOCK FALSE` is set in the session runs, where all sessions may be
closed and all receipts spent, and in the policy run, whose journals may be full
or unhealthy. The other runs check deadlock.

## 6. What is proved

Every safety property the passing runs check is a theorem, for every value of
the constants the named assumptions allow. The theorems rest on one or two
inductive invariants per component, which TLC checked on the run's instance
before they were proved; none of the properties is inductive by itself, and the
paragraphs below say what each needs and why. A proof has one lemma per action,
and below it lemmas about what one line does to a book.

| Module | Theorem | Property |
|---|---|---|
| `SessionProofs` | `TypeCorrect`, `RecoveryTypeCorrect` | `TypeOK`, `RecoveryTypeOK` |
| | `AckedIsDurable` | `AckedDurable` |
| | `RacesHaveOneWinner` | `OneWinner` |
| | `ReservationsAreProven` | `StartedWithProof` |
| | `TablesAreSound` | `LineageSound` |
| | `FailuresAreFinal` | `FailureIsFinal` |
| | `Refinement` | `ImplementsLifecycle` |
| | `IntentIsDurable` | `DurableIntent` |
| | `AtMostOnce` | `ExecutedOnce` |
| | `OutcomeIsOne` | `OneOutcome` |
| | `ClosureIsEarned` | `NoInventedClosure` |
| | `DecisionIsOne` | `OneDecision` |
| `AuthorityLedgerProofs` | `TypeCorrect` | `AuthorityTypeOK` |
| | `RestartChangesNothing` | `MemoryIsJournal` |
| | `NothingForgotten` | `AcknowledgedCounts` |
| | `BudgetIsKept` | `BudgetKept` |
| | `NonceConsumedOnce` | `OneReceiptPerNonce` |
| | `RevocationsHold` | `RevocationHonored` |
| | `BudgetImplemented` | `ImplementsBudget` |
| `SymbiosisProofs` | `SymbiosisTypeCorrect` | `SymbiosisTypeOK` |
| | `ReplayIsFaithful` | `ReplayRestores` |
| | `RevocationsStick` | `RevocationSticks` |
| | `ForgettingLasts` | `ForgottenStaysForgotten` |
| | `PromotionsAreAllowed` | `PromotionsAllowed` |
| `GateChainProofs` | `ChainTypeCorrect` | `GateTypeOK` |
| | `KeysBackOneBranch` | `OneBranchPerKey` |
| | `LayersAgree` | `UsesAreBacked` |
| | `OnlyFailuresCost` | `OnlyFailuresBurn` |
| | `RevocationsLast` | `RevocationsHold` |
| `PolicyProofs` | `AcknowledgedStays` | `Acknowledged` |
| | `WritesAreReplayed` | `WritesReplay` |
| | `EngineAnswersActive` | `EngineAnswers` |
| | `RegisterImplemented` | `ImplementsRegister` |
| `AttestedGateProofs` | `IdentityComesFirst` | `PersistedBeforePrivilege` |
| | `ReplayIsMemory` | `ReplayAgrees` |
| | `RevocationIsFinal` | `RevokedForGood` |
| `VerifiedLoopProofs` | `VerifiedRunsAreEarned` | `VerifiedIsEarned` |

**Session journal** (`SessionProofs`, part 1): any sets of sessions,
correlations, requests, authorizations and processes, and any `Faults`. The only
assumption is `JournalAssumption` (None is no
session, correlation, authorization or record). The properties speak of `view`,
but what the next append builds on is `disk`: `IInv` states them of both, and
`TailRead` says how the two relate. And an append is safe because of what its
operation saw earlier: `PendingCurrent` says that a pending line never runs
ahead of the file, and that one whose number still fits was checked against
exactly the file that is there. The refinement maps every `Append` to a `Start`,
`StartChild`, `Close`, `Retry`, `Freeze` or stutter of `SessionLifecycle`, and
every other step to a stutter.

**Sessions and recovery** (`SessionProofs`, part 2): any sessions, receipts and
processes that overlap as they like, crashes between any two steps and any
`Faults`; from `JournalAssumption` and `SessionAssumption` (the correlation and
the request of a session), and nothing about the behaviour. The properties speak
of a journal that may have been damaged at any moment, so that neither `disk`
nor `view` says what was acknowledged. The invariant `RInv` therefore speaks of the
acknowledged lines themselves. A step either acknowledges a line or does not
(`LoudStep`, `QuietStep`, one lemma that every action is one of them), and each
part is kept by both:

* `FileInv`: while operations have not overlapped, a pending BEGIN is the first
  of its session and a pending decision the first of its parent (`IsFirst`); while
  no failed append left a readable line either, the file is healthy to its last
  newline and a pending line is the only one and fits it (`Quietly`); every closed
  session of either scan was closed by a line that was acknowledged or left
  (`ClosedBy`); and no healthy scan shows a session retried whose COMMIT was
  acknowledged (`CommitsStand`).
* `EarnInv`: a COMMIT, prepared or on file, has its work and its episode.
* `ReceiptInv`: a process in a decision holds a spent receipt that nobody else
  holds and no decision has used (`HoldsReceipt`).
* `OnceInv`: a session that runs or was executed has an acknowledged BEGIN; and
  unless operations overlapped and the journal is damaged, one process runs it
  and it is executed and decided about once (`Owns`).

The step that carries it is that a line is prepared on a journal that reads
healthy, and there `AckedIn` and `OneWinnerIn` of part 1 show every acknowledged
line and no conflicting pair: if operations overlap, either the second line is
refused, which damages the journal for good, or it was decided from the file as
it is.

**Authority ledger** (`AuthorityLedgerProofs`): any receipts, delegation trees,
keys, processes, clock and `Faults`, from `AuthorityAssumption`. A process
decides from a memory that may be stale. `Current` says that a line whose number
fits the journal was decided from a memory equal to it, so the guards of its
operation hold of the journal too; `Good` says of every book a decision can be
taken from that it counts what was ALLOWED and revoked, and that the uses set
aside for children cover what the children were granted (`Covers`, a sum over
the children). `NonceConsumedOnce` assumes `DistinctNonces`: no child is signed
with the nonce of its parent; the ledger does not see to it, and without it the
property is refuted (finding 2). `BudgetImplemented` is about behaviours in
which no two processes share the journal, as in the run that checks it: with two
of them each can be ALLOWED the last use, and the journal then is refused.

**Symbiosis ledger** (`SymbiosisProofs`): any grants, retention policies,
observations, memories, times and `Faults`, any number of restarts, from
`SymbiosisAssumption` and `NoBook`. The properties speak of memory and of what a
replay reads; the next line goes to `disk`, and `Fits` states them of all three.
A line is harmless because memory agrees with a journal that has no bad line
(`Agreement`), so that what the ledger checked in memory replay finds in the
file. A forgotten memory stays so because no memory is live twice: the promotion
that `forget_promotion` finds is then the only live one. And grants that are not
kept leave nothing in the file (`Filed`).

**Gate chain** (`GateChainProofs`): any receipts, finitely many branches and
leases, any clock, `Faults` and number of failures and deaths, from
`ChainAssumption`. There are two invariants. `IInv` is about who may act:
`OneBranchPerKey` speaks of hand-offs that were ISSUED, and its invariant says
where the journals keep that. Every book a registration can be decided from, in
the running process or after a restart, holds all the branches that were handed
off (`KeysHeld`; a book may hold more, since a line whose append failed may be
read back), which is why a free key is free; and no book of leases, and no call
under way, is about any other branch (`LeasesHeld`, `CallsHeld`), which is why
the voucher that `UseVoucher` spends belongs to one of them. A spoiled journal
may have lost a hand-off; then no operation reads it. `JInv` is about what was
spent and revoked. It compares the books of the three ledgers pairwise
(`KeysCovered`, `LeasesCovered`), with the one use a running call has taken
below and not yet counted above (`Pending`), for the running process and for
every book a restart could replay; `KeysStruck` and `LeasesStruck` keep the
acknowledged revocations.

**Policy desk** (`PolicyProofs`): any policies, rules, controls, processes and
`Faults`, from `DeskAssumption`. `RegistryInv` and `QueueInv` are to the two
journals what `IInv` is to the session journal; `CallInv` is what the evaluation
under way knows: its policy was active at a scan since it began. That the fold
over the rules gives the documented answer is the lemma
`EvaluationDocumented`, for any rules and requests.

**Attested gate** (`AttestedGateProofs`): any identities, measurements, clock,
capacities and `Faults`, from `GateAssumption`. A healthy journal never knows less than the
running process and equals it when no tail is left (`BooksInv`); so what a
decision is taken from is in every book of a later decision (`HoldInv`).

**Verified loop** (`VerifiedLoopProofs`): any budgets and any sizes of pipe, read,
sink and deadline, from `ProcessAssumption` and `LoopAssumption` (sizes and
budgets are positive, and there is a budget). The property speaks of a run that
has ended, when the child is gone; its invariant `IInv` says what the parent's
place in `run_posix` implies about the child while it is there (`Tracked`): a
child is doomed only by a ceiling that the report will show, and after the last
drain nothing of the child's is left in the pipe unless the sink is marked
truncated. `Judged` carries that through the verdict; `Booked` is what ZENKAI's
budgets are worth at every place of an attempt.

**Sums.** What a parent has set aside for its children, and what the leases of a
branch have used, are sums over finite sets, computed by the folds of the
community modules. `FoldLemmas` proves that a fold's recursive function exists
and that such a sum is unchanged, grows by one, or splits off an element as
expected; in place of induction each proof takes a smallest subset of the set
for which the claim fails.

**Only model-checked.** `RunEnds` (liveness under fairness, which is out of the
prover's reach); `OneReceiptPerNonce` in the run's instance, which keeps
`DistinctNonces`; and the refinement `ImplementsBudget` for one process. The
mutants and the findings are TLC's by nature.

## 7. Findings

1. **A refused retry burns its receipt** (`burned_receipt`,
   `src/src/recovery_protocol.cpp:126`). `docs/AUTHORITY_LEDGER.md:111` says that
   recovery checks the fresh child correlation before it consumes a receipt.
   `decide` compares it with the parent's own correlation only; a correlation
   some other session has used or reserved is found by `SessionJournal::recover`,
   after the receipt is gone.
2. **A child may share its parent's nonce** (`shared_nonce`,
   `src/src/authority_ledger.cpp:436`). Law 48 (`README.md:257`) lets a nonce
   bind to one receipt. `register_delegation` compares the nonces of parent and
   child with the bound ones, not with each other; afterwards both receipts have
   been consumed under one nonce and the parent is refused for good.
3. **A memory promoted again cannot be forgotten** (`forget_repromoted`,
   `src/src/symbiosis_ledger.cpp:534`). `docs/SYMBIOSIS_LEDGER.md:68` says a
   promotion can be forgotten; `forget_promotion` finds the first entry with the
   id, which is the one already forgotten.

Noticed while modelling, and not turned into runs:

* `record_attestation` answers ALREADY_RECORDED before it looks at revocations
  (`runtime_identity_store.cpp:240`), so evidence recorded before its device was
  revoked still passes the tracking provider while it is fresh.
  `docs/RUNTIME_IDENTITY_STORE.md:70` has a revoked identity refused there.
  `RevokedForGood` therefore speaks of new evidence and of `identity_active`.
* The registry's compare-and-set names a policy, not an activation
  (`policy_registry.cpp:776`): a control signed while A was active still applies
  after A was replaced and restored. `docs/OPERATOR_CONTROL_SURFACE.md:61` says
  that the operator cannot overwrite a change it did not observe.
* Replay refuses a registry line whose signature exceeds 8192 bytes
  (`policy_registry.cpp:252`). `verify_signed_policy_package` and
  `verify_signed_policy_control` only ask that it is not empty (`566-571`,
  `646-656`), and the append bounds the line at 64 KiB (`474`), which holds a
  signature of some 31 KB. Such a package or control is answered READY, and the
  registry is Corrupt from the next scan on; `Acknowledged` and `WritesReplay`
  state it.
* If the host ignores SIGCHLD, `waitpid` fails and the untouched wait status is
  reported as exit code 0 (`native_process.cpp:406-411`, `428-430`).
  `NativeProcess` assumes that it does not.
* `DojoStore::append` tests the stream before it is flushed and does not care for
  a torn tail (`dojo.cpp:388-396`): an episode may be acknowledged and lost.
* `RuntimeLeaseLedger::replay` does not compare a use with the signed maximum, as
  the replay of the session keys does; no journal the code writes needs it.

## 8. Not modelled

The DOJO file (its duplicate scan and its skipping replay) and the scorecard
store: an execution session takes the answer of an append as it is, and the rest
is statistics in floating point. Gated execution and gated symbiosis: a receipt
is consumed and then one operation of a modelled component is called; no
document says more of the pair. CLUBHOUSE and CADDY decide from immutable tables
and floating-point scores and keep no state.

Also left out: the data leech, the artifact vault and the GGUF bridge (file and
process I/O around pure checks), the kernel task (a chain of calls), replay
proof and model identity (string processing), benchmark and hardware probes
(measurements), release gates (stateless check lists), SHA-256 (an assumption),
the command line programs. Within modelled components: canonical text, digests
and signatures, error wording, the budgets of `ExecutionSession` events and
artifacts, a run without a journal, the Windows variant of the process executor
and its memory samples, the console's snapshots, and the counters and sightings
of the identity store.

## 9. Running

    tlc -workers 2 -config MCSessionJournal.cfg MCSessionJournal
    tlc -workers 2 -config MCRecoveryProtocol.cfg MCRecoveryProtocol
    tlc -workers 2 -config AuthorityChain.cfg MCAuthorityLedger
    tlc -workers 2 -config AuthorityProcesses.cfg MCAuthorityLedger
    tlc -workers 2 -config MCSymbiosisLedger.cfg MCSymbiosisLedger
    tlc -workers 2 -config MCGateChain.cfg MCGateChain
    tlc -workers 2 -config MCAttestedGate.cfg MCAttestedGate
    tlc -workers 2 -config MCPolicyDesk.cfg MCPolicyDesk
    tlc -workers 2 -config MCVerifiedLoop.cfg MCVerifiedLoop
    tlapm FoldLemmas.tla
    tlapm SessionProofs.tla
    tlapm AuthorityLedgerProofs.tla
    tlapm SymbiosisProofs.tla
    tlapm GateChainProofs.tla
    tlapm PolicyProofs.tla
    tlapm AttestedGateProofs.tla
    tlapm VerifiedLoopProofs.tla

