------------------------------ MODULE NodeKeys ------------------------------
(***************************************************************************)
(* The public keys that clients encrypt confidential requests with.  The   *)
(* chain rotates the keys: it announces a rotation counter and a nonce,    *)
(* and nodes commit a public key per device with evidence made for that    *)
(* nonce.  The state manager applies these events to the tables            *)
(* key_rotations and node_public_keys; it checks the evidence against the  *)
(* nonce it knows.  A key is given out when it belongs to the latest       *)
(* rotation and every device that has it passed.                           *)
(* The event subscriber is external: it delivers the chain's events in     *)
(* order and, after a restart, again from a cursor that it saved.          *)
(***************************************************************************)
EXTENDS Integers, Sequences

CONSTANTS
  Nodes, Devices, Keys,
  NoKey,         \* a device has no row
  Flaws,         \* what may be wrong with the evidence of a node
  MaxEvents,     \* bound on the events of the chain
  MaxErrors,     \* bound on database errors and failed calls of the verifier
  MaxCrashes     \* bound on restarts

ASSUME KeyAssumption == NoKey \notin Keys
ASSUME FlawsAssumption == Flaws \subseteq {"gpu", "nvswitch", "topology", "encoding"}
ASSUME BoundsAssumption == MaxEvents \in Nat /\ MaxErrors \in Nat /\ MaxCrashes \in Nat

VARIABLES
  chain,         \* external: the events of the chain, in order
  next,          \* the first event that the state manager has not handled
  cursor,        \* external: where the subscriber begins after a restart
  rotations,     \* key_rotations: key_rotation_counter of an epoch, 0 without a row
  counter,       \* node_public_keys.key_rotation_counter of a node's device
  key,           \* node_public_keys.public_key
  valid,         \* node_public_keys.is_valid
  evidence,      \* history: which nonce the evidence of the row was made for
  errors, crashes

tables == <<rotations, counter, key, valid, evidence>>
faults == <<errors, crashes>>
vars == <<chain, next, cursor, tables, faults>>

Epochs == 1 .. MaxEvents
Counters == 1 .. MaxEvents
Owners == Nodes \X Devices

Init ==
  /\ chain = <<>> /\ next = 1 /\ cursor = 1
  /\ rotations = [e \in Epochs |-> 0]
  /\ counter = [o \in Owners |-> 0]
  /\ key = [o \in Owners |-> NoKey]
  /\ valid = [o \in Owners |-> FALSE]
  /\ evidence = [o \in Owners |-> 0]
  /\ errors = 0 /\ crashes = 0

MaxOf(S) == CHOOSE x \in S : \A y \in S : y <= x

-----------------------------------------------------------------------------
(* The chain.                                                              *)

(* A node with eight GPUs and four switches sends evidence for both        *)
(* (ppcie); the evidence of other nodes has no part about switches.        *)
FlawsOf(ppcie) == IF ppcie THEN Flaws ELSE Flaws \ {"nvswitch", "topology"}

Rotation(epoch, c) == [type |-> "NewKeyRotation", epoch |-> epoch, counter |-> c]
Commitment(o, k, c, nonce, ppcie, flaw) ==
  [type |-> "NodePublicKeyCommittment", owner |-> o, key |-> k, counter |-> c,
   nonce |-> nonce, ppcie |-> ppcie, flaw |-> flaw]

IsRotation(i) == chain[i].type = "NewKeyRotation"
RotationsBefore(i) == {j \in 1 .. i - 1 : IsRotation(j)}
NoRotation == Rotation(0, 0)
LastRotation(i) ==
  IF RotationsBefore(i) = {} THEN NoRotation ELSE chain[MaxOf(RotationsBefore(i))]
ChainRotation == LastRotation(Len(chain) + 1)

Emit(e) ==
  /\ Len(chain) < MaxEvents
  /\ chain' = Append(chain, e)
  /\ UNCHANGED <<next, cursor, tables, faults>>

(* The counter grows with every rotation, the epoch may be the same. *)
ChainRotates ==
  \E step \in {0, 1} :
    /\ ChainRotation.epoch + step > 0
    /\ Emit(Rotation(ChainRotation.epoch + step, ChainRotation.counter + 1))

(* The contract takes commitments for the current rotation; the evidence   *)
(* may be left over from an earlier one.                                   *)
NodeCommits(o) ==
  /\ ChainRotation # NoRotation
  /\ LET c == ChainRotation.counter IN
     \E k \in Keys, ppcie \in BOOLEAN :
       \/ \E nonce \in {c, c - 1} : Emit(Commitment(o, k, c, nonce, ppcie, "none"))
       \/ \E flaw \in FlawsOf(ppcie) : Emit(Commitment(o, k, c, c, ppcie, flaw))

-----------------------------------------------------------------------------
(* The state manager.                                                      *)

Known == {e \in Epochs : rotations[e] > 0}

(* get_contract_key_rotation_nonce: the row of the highest epoch. *)
get_contract_key_rotation_nonce == IF Known = {} THEN 0 ELSE rotations[MaxOf(Known)]

(* should_be_nonce is hashed from the nonce of the latest rotation, the    *)
(* public key and the device; without a rotation there is none.            *)
NonceAgrees(e) == Known # {} /\ e.nonce = get_contract_key_rotation_nonce

attest_nvidia_gpu_evidence_list(e) == NonceAgrees(e) /\ e.flaw # "gpu"
attest_nvidia_nvswitch_evidence_list(e) == NonceAgrees(e) /\ e.flaw # "nvswitch"

(* The switches that the GPUs name are the ones that sent evidence, and    *)
(* the other way round; both are decoded from base64 first.                *)
verify_topology(e) == e.flaw # "topology"

Attested(e) ==
  /\ attest_nvidia_gpu_evidence_list(e)
  /\ e.ppcie => attest_nvidia_nvswitch_evidence_list(e) /\ verify_topology(e)

(* Mutant: a new key of a device does not replace the old one. *)
update_node_public_key_Keep(e, is_valid) ==
  IF counter[e.owner] > 0
    THEN UNCHANGED <<counter, key, valid, evidence>>
    ELSE /\ counter' = [counter EXCEPT ![e.owner] = e.counter]
         /\ key' = [key EXCEPT ![e.owner] = e.key]
         /\ valid' = [valid EXCEPT ![e.owner] = is_valid]
         /\ evidence' = [evidence EXCEPT ![e.owner] = e.nonce]

update_node_public_key(e, is_valid) ==
  /\ counter' = [counter EXCEPT ![e.owner] = e.counter]
  /\ key' = [key EXCEPT ![e.owner] = e.key]
  /\ valid' = [valid EXCEPT ![e.owner] = is_valid]
  /\ evidence' = [evidence EXCEPT ![e.owner] = e.nonce]

Pending(type) == next <= Len(chain) /\ chain[next].type = type

(* A rotation of the same epoch replaces the row. *)
insert_new_key_rotation(e) == rotations' = [rotations EXCEPT ![e.epoch] = e.counter]

handle_new_key_rotation_event ==
  /\ Pending("NewKeyRotation")
  /\ insert_new_key_rotation(chain[next])
  /\ next' = next + 1
  /\ UNCHANGED <<chain, cursor, counter, key, valid, evidence, faults>>

(* The evidence is compressed JSON. *)
Readable(e) == e.flaw # "encoding"

(* Evidence that cannot be read ends the handler, and so does, in ppcie    *)
(* mode, evidence that does not pass: the row stays as it was.  Otherwise  *)
(* the row gets the new key with the outcome.                              *)
handle_node_key_rotation_event ==
  LET e == chain[next] IN
  /\ Pending("NodePublicKeyCommittment")
  /\ IF ~Readable(e) \/ (e.ppcie /\ ~Attested(e))
       THEN UNCHANGED <<counter, key, valid, evidence>>
       ELSE update_node_public_key(e, Attested(e))
  /\ next' = next + 1
  /\ UNCHANGED <<chain, cursor, rotations, faults>>

(* A statement fails: the error is logged and the event is gone. *)
DatabaseError ==
  /\ next <= Len(chain) /\ errors < MaxErrors
  /\ errors' = errors + 1
  /\ next' = next + 1
  /\ UNCHANGED <<chain, cursor, tables, crashes>>

(* The verification service cannot be reached, which counts as failed. *)
VerifierFails ==
  LET e == chain[next] IN
  /\ Pending("NodePublicKeyCommittment") /\ errors < MaxErrors
  /\ Readable(e) /\ ~e.ppcie
  /\ update_node_public_key(e, FALSE)
  /\ errors' = errors + 1
  /\ next' = next + 1
  /\ UNCHANGED <<chain, cursor, rotations, crashes>>

(* The subscriber notes how far it got. *)
SaveCursor ==
  /\ cursor < next
  /\ cursor' = next
  /\ UNCHANGED <<chain, next, tables, faults>>

(* The proxy restarts: events after the cursor come again. *)
Crash ==
  /\ crashes < MaxCrashes
  /\ crashes' = crashes + 1
  /\ next' = cursor
  /\ UNCHANGED <<chain, cursor, tables, errors>>

-----------------------------------------------------------------------------
HandleEvent == handle_new_key_rotation_event \/ handle_node_key_rotation_event

Next ==
  \/ ChainRotates
  \/ \E o \in Owners : NodeCommits(o)
  \/ HandleEvent \/ DatabaseError \/ VerifierFails
  \/ SaveCursor \/ Crash

Spec == Init /\ [][Next]_vars

-----------------------------------------------------------------------------
(* The two queries that give out keys, select_node_public_key_for_         *)
(* encryption and select_node_public_key_for_encryption_for_node.          *)

latest_rotation == IF Known = {} THEN 0 ELSE MaxOf({rotations[e] : e \in Known})

(* Mutant: one device that passed is enough. *)
AllPass_One(n, k) ==
  \E d \in Devices : counter[<<n, d>>] = latest_rotation /\ key[<<n, d>>] = k /\ valid[<<n, d>>]

(* HAVING bool_and(is_valid), over the rows of the rotation with the key. *)
AllPass(n, k) ==
  \A d \in Devices :
    counter[<<n, d>>] = latest_rotation /\ key[<<n, d>>] = k => valid[<<n, d>>]

HasKey(n, k) == \E d \in Devices : counter[<<n, d>>] = latest_rotation /\ key[<<n, d>>] = k
Selectable(n) == {k \in Keys : latest_rotation > 0 /\ HasKey(n, k) /\ AllPass(n, k)}

(* Types of chain, cursors and tables. *)
TypeOK ==
  /\ next \in 1 .. Len(chain) + 1 /\ cursor \in 1 .. next
  /\ rotations \in [Epochs -> 0 .. MaxEvents]
  /\ counter \in [Owners -> 0 .. MaxEvents]
  /\ key \in [Owners -> Keys \cup {NoKey}]
  /\ valid \in [Owners -> BOOLEAN]
  /\ evidence \in [Owners -> 0 .. MaxEvents]
  /\ errors \in 0 .. MaxErrors /\ crashes \in 0 .. MaxCrashes

(* A key that a client may get was shown, for every device that has it, by *)
(* evidence made for the latest rotation the proxy knows of: with rotation *)
(* events lost to the database, commitments with old evidence, or restarts *)
(* that apply events a second time to newer tables.  (With both a lost     *)
(* rotation and a replay that brings it back, a row that was checked       *)
(* against the older nonce is given out until it is replayed as well.)     *)
KeysAreAttested ==
  errors = 0 \/ crashes = 0 =>
  \A n \in Nodes : \A k \in Selectable(n) : \A d \in Devices :
    counter[<<n, d>>] = latest_rotation /\ key[<<n, d>>] = k
      => evidence[<<n, d>>] = latest_rotation

(* What the chain alone says: the commitment of an owner that counts is    *)
(* the last one that was not dropped.                                      *)
IsCommitment(i, o) == chain[i].type = "NodePublicKeyCommittment" /\ chain[i].owner = o
Passes(i) ==
  LET e == chain[i] IN
  e.nonce = LastRotation(i).counter /\ e.flaw = "none"
Counts(i) == chain[i].flaw # "encoding" /\ (chain[i].ppcie => Passes(i))
CommitmentsOf(o) == {i \in 1 .. Len(chain) : IsCommitment(i, o) /\ Counts(i)}
CurrentOf(n, k) ==
  {i \in {MaxOf(CommitmentsOf(<<n, d>>)) :
            d \in {dd \in Devices : CommitmentsOf(<<n, dd>>) # {}}} :
     chain[i].counter = ChainRotation.counter /\ chain[i].key = k}
SelectableByChain(n) ==
  {k \in Keys : CurrentOf(n, k) # {} /\ \A i \in CurrentOf(n, k) : Passes(i)}

(* When every event has been handled, the keys that are given out are the  *)
(* ones that the chain's events define, no matter how often the proxy was  *)
(* restarted and from where it read the events again: replay is harmless.  *)
ReplayIsHarmless ==
  next > Len(chain) /\ errors = 0 => \A n \in Nodes : Selectable(n) = SelectableByChain(n)
=============================================================================
