---------------------------- MODULE CuratedZone ----------------------------
(***************************************************************************)
(* What a reader of the curated zone may rely on, whoever processes and    *)
(* however often that fails: three datasets, each of which is withdrawn    *)
(* for a new version and shown again when it is whole.  A version is a run *)
(* and the raw files it was given.  A dataset is made from whole datasets  *)
(* of its own version, and these are not touched again in the same run.    *)
(***************************************************************************)
EXTENDS Naturals

\* User vectors are made from the features, recommendations from the vectors.
DerivedFrom ==
  [aggregated_student_features |-> {},
   user_vectors                |-> {"aggregated_student_features"},
   recommendations_batch       |-> {"aggregated_student_features", "user_vectors"}]

Datasets == DOMAIN DerivedFrom

VARIABLES
  version,   \* dataset -> [run, input] it was last begun for
  whole      \* datasets all of whose rows are there

vars == <<version, whole>>

Unwritten == [run |-> 0, input |-> {}]

Init == version = [d \in Datasets |-> Unwritten] /\ whole = {}

\* What d of version v is made from is there.
MadeFromWhole(d, v) ==
  \A e \in DerivedFrom[d] : e \in whole /\ version[e] = v

\* No dataset is of a later run, and none of a run has another run's input.
Latest(v) ==
  \A e \in Datasets : version[e].run < v.run \/ version[e] = v

\* Readers lose d, which is begun for a version version'[d] of anyone's choosing.
\* What is derived from d stays, and is of an earlier run.
Withdraw(d) ==
  /\ version'[d].run \in Nat
  /\ Latest(version'[d])
  /\ MadeFromWhole(d, version'[d])
  /\ \A e \in Datasets : d \in DerivedFrom[e] => version[e].run < version'[d].run
  /\ version' = [version EXCEPT ![d] = version'[d]]
  /\ whole' = whole \ {d}

\* The last of the rows of d is in place.
Publish(d) ==
  /\ d \notin whole
  /\ MadeFromWhole(d, version[d])
  /\ whole' = whole \cup {d}
  /\ UNCHANGED version

Next == \E d \in Datasets : Withdraw(d) \/ Publish(d)

Spec == Init /\ [][Next]_vars
=============================================================================
