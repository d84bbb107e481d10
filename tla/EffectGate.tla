----------------------------- MODULE EffectGate -----------------------------
(***************************************************************************)
(* Effects, precommitments and receipts of openpoc/effect_gate.py.  An     *)
(* agent holds effect objects; their payload is a dictionary it may change *)
(* at any time, and the digest of an effect is computed anew whenever it   *)
(* is read.  Effects reach the store through the gate or around it.        *)
(*                                                                         *)
(* A precommitment is its effect id and digest (its token is a hash of     *)
(* these), so it is the digest record; a forged one is valid only if equal *)
(* to a stored one.  Recorder.finalize is called by the gate alone.        *)
(***************************************************************************)

CONSTANTS
  Objects,        \* effect objects agents hold
  IdOf,           \* the effect_id of each, not necessarily distinct
  Contents,       \* what a payload may hold
  NoReceipt

Ids == {IdOf[o] : o \in Objects}
Digests == [id : Ids, content : Contents]

VARIABLES
  content,        \* Objects -> Contents: payloads as they are now
  precommitted,   \* Recorder._precommitments
  receipts,       \* Recorder._receipts: Ids -> digest receipted, or none
  applied,        \* EffectStore._effects: the objects in the store
  enacted,        \* history: what each applied object was when applied
  bypassed        \* history: ids applied around the gate

gateVars == <<content, precommitted, receipts, applied, enacted, bypassed>>

(* Effect.digest, of the payload at this moment. *)
Digest(o) == [id |-> IdOf[o], content |-> content[o]]

AppliedIds == {IdOf[o] : o \in applied}
ReceiptIds == {id \in Ids : receipts[id] # NoReceipt}

(* Mutant: the digest of the effect is not compared. *)
IsValidPrecommitmentById(o, pre) ==
  pre \in precommitted /\ pre.id = IdOf[o]

(* Recorder.is_valid_precommitment; None is no element of precommitted. *)
IsValidPrecommitment(o, pre) ==
  pre \in precommitted /\ pre = Digest(o)

(* EffectStore.apply, which refuses an effect_id it holds already. *)
Apply(o) ==
  /\ IdOf[o] \notin AppliedIds
  /\ applied' = applied \cup {o}
  /\ enacted' = [enacted EXCEPT ![IdOf[o]] = Digest(o)]

(* Recorder.finalize. *)
Finalize(o) == receipts' = [receipts EXCEPT ![IdOf[o]] = Digest(o)]

(* Recorder.precommit. *)
Precommit(o) ==
  /\ precommitted' = precommitted \cup {Digest(o)}
  /\ UNCHANGED <<content, receipts, applied, enacted, bypassed>>

(* EffectGate.execute: check, apply, finalize, which checks once more what  *)
(* nothing in between has changed.  When the check or the store refuses,    *)
(* nothing happens.                                                         *)
Execute(o, pre) ==
  /\ IsValidPrecommitment(o, pre)
  /\ Apply(o)
  /\ Finalize(o)
  /\ UNCHANGED <<content, precommitted, bypassed>>

(* Mutant: the receipt is written even if the store refuses the effect. *)
ExecuteViaGateReceiptFirst(o) ==
  /\ precommitted' = precommitted \cup {Digest(o)}
  /\ Finalize(o)
  /\ \/ Apply(o)
     \/ IdOf[o] \in AppliedIds /\ UNCHANGED <<applied, enacted>>
  /\ UNCHANGED <<content, bypassed>>

(* BypassableRuntime.execute_via_gate: a refusal by the store leaves the    *)
(* precommitment behind.                                                    *)
ExecuteViaGate(o) ==
  /\ precommitted' = precommitted \cup {Digest(o)}
  /\ \/ /\ Apply(o)
        /\ Finalize(o)
     \/ /\ IdOf[o] \in AppliedIds
        /\ UNCHANGED <<receipts, applied, enacted>>
  /\ UNCHANGED <<content, bypassed>>

(* BypassableRuntime.execute_bypass. *)
ExecuteBypass(o) ==
  /\ Apply(o)
  /\ bypassed' = bypassed \cup {IdOf[o]}
  /\ UNCHANGED <<content, precommitted, receipts>>

(* The agent changes the dictionary it passed as payload. *)
Mutate(o, c) ==
  /\ content[o] # c
  /\ content' = [content EXCEPT ![o] = c]
  /\ UNCHANGED <<precommitted, receipts, applied, enacted, bypassed>>

GateInit ==
  /\ \E c \in Contents : content = [o \in Objects |-> c]
  /\ precommitted = {}
  /\ receipts = [id \in Ids |-> NoReceipt]
  /\ applied = {}
  /\ enacted = [id \in Ids |-> NoReceipt]
  /\ bypassed = {}

GateNext ==
  \E o \in Objects :
    \/ Precommit(o)
    \/ \E pre \in precommitted : Execute(o, pre)
    \/ ExecuteViaGate(o)
    \/ ExecuteBypass(o)
    \/ \E c \in Contents : Mutate(o, c)

-----------------------------------------------------------------------------
GateTypeOK ==
  /\ content \in [Objects -> Contents]
  /\ precommitted \subseteq Digests
  /\ receipts \in [Ids -> Digests \cup {NoReceipt}]
  /\ enacted \in [Ids -> Digests \cup {NoReceipt}]
  /\ applied \subseteq Objects
  /\ bypassed \subseteq AppliedIds

(***************************************************************************)
(* Evidence entered the path before the effect: whatever the agent did to  *)
(* payloads between its calls and however often it replayed precommitments *)
(* or effect ids, a receipt names the content that was precommitted and    *)
(* that was applied under its id.                                          *)
(***************************************************************************)
ReceiptsBindEffects ==
  \A id \in ReceiptIds :
    receipts[id] \in precommitted /\ receipts[id] = enacted[id]

(***************************************************************************)
(* Nothing is receipted that did not go through the gate, and nothing that *)
(* did is missing: the receipted ids are those of the applied effects that *)
(* were not executed around the gate, in whatever order ids were reused.   *)
(***************************************************************************)
UnreceiptedIsBypassed == ReceiptIds = AppliedIds \ bypassed
=============================================================================
