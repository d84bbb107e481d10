--------------------------- MODULE MCReceiverReview ---------------------------
(* An instance of ReceiverReview for TLC. *)
EXTENDS ReceiverReview, TLC

CONSTANTS a, b, ka, kb, kc, k1, k2, x, y

Binding(source, key, from, until) ==
  [source |-> source, key |-> key, notBefore |-> from, notAfter |-> until]

(* The receiver's key expires while the policy goes on; the second policy   *)
(* gives the receiver a new one and the sender keeps its own.               *)
SenderBinding == Binding(a, ka, 0, MaxTime + 1)

TwoPolicies ==
  << [epoch |-> 1, from |-> 0, until |-> MaxTime + 1,
      roles |-> "sender" :> SenderBinding @@ "receiver" :> Binding(b, kb, 0, Cutoff + 1)],
     [epoch |-> 2, from |-> 1, until |-> MaxTime + 1,
      roles |-> "sender" :> SenderBinding @@ "receiver" :> Binding(b, kc, 0, MaxTime + 1)] >>

Claim(correlation, artifact, success) ==
  [correlation |-> correlation, artifact |-> artifact, success |-> success]

SomeClaims ==
  "sender" :> {Claim(k1, x, TRUE)} @@
  "receiver" :> {Claim(k1, x, TRUE), Claim(k1, y, TRUE)}

Issuing == <<0, 1>>

SomeManifests == {[artifact |-> x, correlation |-> k1]}

Expecting ==
  [correlation |-> k1, artifact |-> x,
   sources |-> "sender" :> a @@ "receiver" :> b, final |-> TRUE]
=============================================================================
