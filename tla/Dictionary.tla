----------------------------- MODULE Dictionary -----------------------------
(***************************************************************************)
(* What util::UntypedTable promises to its client: a finite map from keys  *)
(* to values in which two keys of equal content are one key.  `lookup` is  *)
(* the map itself, `outcome` the truth value returned by the insert or     *)
(* remove that took effect last.  No buckets, hashes or nodes.             *)
(***************************************************************************)
CONSTANTS
  Key,      \* the pointers a client may pass as keys
  Value,    \* the pointers a client may pass as values
  Absent,   \* the null value `lookup` returns for a key it does not find
  Content   \* [Key -> what the key points to, as key_equal sees it]

VARIABLES lookup, outcome

dictVars == <<lookup, outcome>>

Alias(k) == {j \in Key : Content[j] = Content[k]}

DictInit ==
  /\ lookup = [k \in Key |-> Absent]
  /\ outcome = FALSE

\* insert: TRUE when the key is new, FALSE when an entry is replaced.
Put(k, v) ==
  /\ lookup' = [j \in Key |-> IF j \in Alias(k) THEN v ELSE lookup[j]]
  /\ outcome' = (lookup[k] = Absent)

\* remove of a key that is present.
Delete(k) ==
  /\ lookup[k] # Absent
  /\ lookup' = [j \in Key |-> IF j \in Alias(k) THEN Absent ELSE lookup[j]]
  /\ outcome' = TRUE

\* remove of a key that is absent.
Miss(k) ==
  /\ outcome' = FALSE
  /\ UNCHANGED lookup

\* The table is destroyed and another one constructed in its place.
Clear ==
  /\ lookup' = [k \in Key |-> Absent]
  /\ outcome' = FALSE

DictNext ==
  \/ \E k \in Key, v \in Value : Put(k, v)
  \/ \E k \in Key : Delete(k) \/ Miss(k)
  \/ Clear

DictSpec == DictInit /\ [][DictNext]_dictVars
=============================================================================
