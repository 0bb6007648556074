-------------------------- MODULE OverlayStoreProofs --------------------------
(***************************************************************************)
(* Proofs about OverlayStore, for every set of providers, every TOML file  *)
(* and every number of mutations, restarts, edits of the file and lost     *)
(* rows: no credentials of the TOML file in the database, well-formed rows *)
(* and configurations, the order of the claims, and that a start restores  *)
(* the providers.                                                          *)
(***************************************************************************)
EXTENDS OverlayStore, Recursion, FiniteSetTheorems, TLAPS

\* A row that is there says whether the Web UI owns the provider.
RowFields(r) ==
  /\ DOMAIN r = {"enabled", "removed", "managed", "json"}
  /\ r.managed \in BOOLEAN
\* The row of a provider that is not managed holds no credentials.
RowClean(r) == ~r.managed /\ r.json # None => r.json.key = None
RowsInv ==
  /\ DOMAIN prows = Providers
  /\ \A p \in Providers : prows[p] # None => RowFields(prows[p]) /\ RowClean(prows[p])

(* A row written from a configuration is clean. *)
LEMMA WrittenClean ==
  ASSUME NEW c, NEW managed \in BOOLEAN
  PROVE  RowFields(ProviderRowOf(c, managed)) /\ RowClean(ProviderRowOf(c, managed))
BY DEF RowFields, RowClean, ProviderRowOf, Snapshot

LEMMA ManagedIsBoolean ==
  ASSUME RowsInv, NEW p \in Providers
  PROVE  Managed(p) \in BOOLEAN
<1>1. CASE prows[p] # None
  BY <1>1 DEF RowsInv, RowFields, Managed
<1>2. CASE prows[p] = None
  BY <1>2 DEF Managed
<1>3. QED
  BY <1>1, <1>2

(* A step that writes at most one row, which is clean. *)
LEMMA RowWritten ==
  ASSUME RowsInv, NEW p \in Providers, NEW row,
         row = None \/ (RowFields(row) /\ RowClean(row)),
         prows' = [prows EXCEPT ![p] = row]
  PROVE  RowsInv'
<1>1. DOMAIN prows' = Providers
  BY DEF RowsInv
<1>2. ASSUME NEW q \in Providers, prows'[q] # None
      PROVE  RowFields(prows'[q]) /\ RowClean(prows'[q])
  BY <1>2 DEF RowsInv
<1>3. QED
  BY <1>1, <1>2 DEF RowsInv, RowFields, RowClean

LEMMA NextClean == RowsInv /\ [Next]_vars => RowsInv'
<1> SUFFICES ASSUME RowsInv, [Next]_vars PROVE RowsInv'
  OBVIOUS
<1>1. CASE UNCHANGED prows
  BY <1>1 DEF RowsInv, RowFields, RowClean
<1>2. ASSUME NEW p \in Providers, NEW c, NEW preserve, CreateProvider(p, c, preserve)
      PROVE  RowsInv'
  <2>1. prows' = [prows EXCEPT ![p] = ProviderRowOf(c, TRUE)]
    BY <1>2 DEF CreateProvider
  <2>2. QED
    BY <2>1, WrittenClean, RowWritten
<1>3. ASSUME NEW p \in Providers, NEW edit, UpdateProvider(p, edit) PROVE RowsInv'
  <2>1. prows' = [prows EXCEPT ![p] = ProviderRowOf(Edited(live[p], edit), Managed(p))]
    BY <1>3 DEF UpdateProvider
  <2>2. QED
    BY <2>1, ManagedIsBoolean, WrittenClean, RowWritten
<1>4. ASSUME NEW p \in Providers, DeleteProvider(p) PROVE RowsInv'
  <2>1. CASE Managed(p)
    <3>1. prows' = [prows EXCEPT ![p] = None]
      BY <1>4, <2>1 DEF DeleteProvider
    <3>2. QED
      BY <3>1, RowWritten
  <2>2. CASE ~Managed(p)
    <3> DEFINE row == [enabled |-> FALSE, removed |-> TRUE, managed |-> FALSE,
                       json |-> IF prows[p] = None THEN None ELSE prows[p].json]
    <3>1. prows' = [prows EXCEPT ![p] = row]
      BY <1>4, <2>2 DEF DeleteProvider
    <3>2. RowFields(row)
      BY DEF RowFields
    <3>3. RowClean(row)
      <4>1. CASE prows[p] = None
        BY <4>1 DEF RowClean
      <4>2. CASE prows[p] # None
        <5>1. ~prows[p].managed /\ RowClean(prows[p])
          BY <2>2, <4>2 DEF Managed, RowsInv
        <5>2. QED
          BY <4>2, <5>1 DEF RowClean
      <4>3. QED
        BY <4>1, <4>2
    <3> HIDE DEF row
    <3>4. QED
      BY <3>1, <3>2, <3>3, RowWritten
  <2>3. QED
    BY <2>1, <2>2
<1>5. ASSUME NEW p \in Providers, NEW b, SetProviderEnabled(p, b) PROVE RowsInv'
  <2>1. CASE prows[p] # None
    <3> DEFINE row == [prows[p] EXCEPT !.enabled = b, !.removed = FALSE]
    <3>1. prows' = [prows EXCEPT ![p] = row]
      BY <1>5, <2>1 DEF SetProviderEnabled
    <3>2. RowFields(prows[p]) /\ RowClean(prows[p])
      BY <2>1 DEF RowsInv
    <3>3. /\ DOMAIN row = DOMAIN prows[p]
          /\ row.managed = prows[p].managed /\ row.json = prows[p].json
      BY <3>2 DEF RowFields
    <3>4. RowFields(row) /\ RowClean(row)
      BY <3>2, <3>3 DEF RowFields, RowClean
    <3> HIDE DEF row
    <3>5. QED
      BY <3>1, <3>4, RowWritten
  <2>2. CASE prows[p] = None /\ Managed(p)
    <3>1. prows' = [prows EXCEPT ![p] = ProviderRowOf([live[p] EXCEPT !.enabled = b], TRUE)]
      BY <1>5, <2>2 DEF SetProviderEnabled
    <3>2. QED
      BY <3>1, WrittenClean, RowWritten
  <2>3. CASE prows[p] = None /\ ~Managed(p)
    <3> DEFINE row == [enabled |-> b, removed |-> FALSE, managed |-> FALSE, json |-> None]
    <3>1. prows' = [prows EXCEPT ![p] = row]
      BY <1>5, <2>3 DEF SetProviderEnabled
    <3>2. RowFields(row) /\ RowClean(row)
      BY DEF RowFields, RowClean
    <3> HIDE DEF row
    <3>3. QED
      BY <3>1, <3>2, RowWritten
  <2>4. QED
    BY <2>1, <2>2, <2>3
<1>6. ASSUME NEW p \in Providers, NEW id, DeleteModel(p, id) PROVE RowsInv'
  <2>1. UNCHANGED prows \/ \E c : prows' = [prows EXCEPT ![p] = ProviderRowOf(c, TRUE)]
    BY <1>6 DEF DeleteModel
  <2>2. QED
    BY <1>1, <2>1, WrittenClean, RowWritten
<1>7. ASSUME NEW p \in Providers, LoseRow(p) PROVE RowsInv'
  BY <1>7, RowWritten DEF LoseRow
<1>8. ASSUME NEW p \in Providers, NEW e, PutModel(p, e) PROVE RowsInv'
  BY <1>1, <1>8 DEF PutModel
<1>9. ASSUME NEW p \in Providers, NEW id, NEW b, SetModelEnabled(p, id, b) PROVE RowsInv'
  BY <1>1, <1>9 DEF SetModelEnabled
<1>10. ASSUME NEW p \in Providers, NEW key, EditToml(p, key) PROVE RowsInv'
  BY <1>1, <1>10 DEF EditToml
<1>11. CASE Publish \/ Restart \/ UNCHANGED vars
  BY <1>1, <1>11 DEF Publish, Restart, vars
<1>12. QED
  BY <1>2, <1>3, <1>4, <1>5, <1>6, <1>7, <1>8, <1>9, <1>10, <1>11 DEF Next

(* The database never holds the credentials of a provider that the TOML    *)
(* file owns, whatever was created, deleted, lost and restarted in between *)
(* (provider_overlay_config_json).                                         *)
THEOREM CredentialsHold == Spec => []CredentialsStayInToml
<1>1. Init => RowsInv
  BY DEF Init, RowsInv
<1>2. RowsInv => CredentialsStayInToml
  BY DEF RowsInv, RowClean, CredentialsStayInToml
<1>3. QED
  BY <1>1, <1>2, NextClean, PTL DEF Spec

-----------------------------------------------------------------------------
(* The order of rows *)

Tables == UNION {[keys -> ModelRow] : keys \in SUBSET Keys}

LEMMA TableOf ==
  /\ \A rows \in Tables : rows \in [DOMAIN rows -> ModelRow] /\ DOMAIN rows \subseteq Keys
  /\ \A keys \in SUBSET Keys : [keys -> ModelRow] \subseteq Tables
BY DEF Tables

(* What the assumption says of the numbers. *)
LEMMA Numbers ==
  /\ NumProviders \in Nat /\ NumIds \in Nat
  /\ Providers \subseteq Nat /\ Ids \subseteq Nat
BY ConstantsAssumption DEF Providers, Ids

LEMMA KeysAreFinite ==
  ASSUME NEW keys \in SUBSET Keys
  PROVE  IsFiniteSet(keys) /\ Cardinality(keys) \in Nat
<1>1. IsFiniteSet(Providers) /\ IsFiniteSet(Ids)
  BY Numbers, FS_Interval DEF Providers, Ids
<1>2. IsFiniteSet(Providers \X Ids)
  BY <1>1, FS_Product
<1>3. IsFiniteSet(keys)
  BY <1>2, FS_Subset DEF Keys
<1>4. QED
  BY <1>3, FS_CardinalityType

(* Some number is the least. *)
LEMMA LeastNumber ==
  ASSUME NEW S \in SUBSET Nat, S # {}
  PROVE  \E x \in S : \A y \in S : x <= y
<1>1. PICK x \in S : \A y \in S : ~(<<y, x>> \in OpToRel(<, Nat))
  BY WFMin, NatLessThanWellFounded
<1>2. \A y \in S : x <= y
  <2> SUFFICES ASSUME NEW y \in S, y < x PROVE FALSE
    OBVIOUS
  <2>1. x \in Nat /\ y \in Nat
    OBVIOUS
  <2>2. <<y, x>> \in OpToRel(<, Nat)
    BY <2>1, Zenon DEF OpToRel
  <2>3. QED
    BY <1>1, <2>2
<1>3. QED
  BY <1>2

(* Rows are ordered one after the other. *)
LEMMA PrecedesOrders ==
  ASSUME NEW rows \in Tables, NEW j \in DOMAIN rows, NEW k \in DOMAIN rows
  PROVE  /\ ~Precedes(rows, j, j)
         /\ j = k \/ Precedes(rows, j, k) \/ Precedes(rows, k, j)
         /\ Precedes(rows, j, k) => rows[j].order <= rows[k].order
         /\ \A l \in DOMAIN rows :
              Precedes(rows, j, k) /\ Precedes(rows, k, l) => Precedes(rows, j, l)
<1>1. ASSUME NEW l \in DOMAIN rows
      PROVE  l[1] \in Nat /\ l[2] \in Nat /\ rows[l].order \in Int /\ l = <<l[1], l[2]>>
  <2>1. PICK p \in Providers, id \in Ids : l = <<p, id>>
    BY TableOf DEF Keys
  <2>2. rows[l].order \in Int
    BY TableOf DEF ModelRow
  <2>3. p \in Nat /\ id \in Nat
    BY Numbers
  <2>4. l[1] = p /\ l[2] = id
    BY <2>1
  <2>5. QED
    BY <2>1, <2>2, <2>3, <2>4
<1>2. \A l \in DOMAIN rows :
        l[1] \in Nat /\ l[2] \in Nat /\ rows[l].order \in Int /\ l = <<l[1], l[2]>>
  BY <1>1
<1>3. j = k \/ ~(j[1] = k[1] /\ j[2] = k[2])
  BY <1>2
<1>4. QED
  BY <1>2, <1>3 DEF Precedes

(* A row before another has fewer rows before it. *)
LEMMA BeforeGrows ==
  ASSUME NEW rows \in Tables, NEW keys \in SUBSET DOMAIN rows,
         NEW j \in keys, NEW k \in keys
  PROVE  /\ Before(rows, keys, k) \in 0..(Cardinality(keys) - 1)
         /\ Precedes(rows, j, k) => Before(rows, keys, j) < Before(rows, keys, k)
<1> DEFINE Below(l) == {m \in keys : Precedes(rows, m, l)}
<1>1. keys \subseteq Keys
  BY TableOf
<1>2. ASSUME NEW l \in keys
      PROVE  /\ IsFiniteSet(Below(l)) /\ Before(rows, keys, l) = Cardinality(Below(l))
             /\ Cardinality(Below(l)) \in Nat /\ Cardinality(Below(l)) < Cardinality(keys)
  <2>1. IsFiniteSet(keys) /\ Cardinality(keys) \in Nat
    BY <1>1, KeysAreFinite
  <2>2. Below(l) \in SUBSET keys /\ l \notin Below(l)
    BY PrecedesOrders
  <2>3. Below(l) # keys
    BY <2>2
  <2>4. IsFiniteSet(Below(l)) /\ Cardinality(Below(l)) \in Nat
    BY <2>2, <1>1, KeysAreFinite
  <2>5. Cardinality(Below(l)) <= Cardinality(keys) /\ Cardinality(keys) # Cardinality(Below(l))
    BY <2>1, <2>2, <2>3, FS_Subset
  <2>6. QED
    BY <2>1, <2>4, <2>5 DEF Before
<1>3. Before(rows, keys, k) \in 0..(Cardinality(keys) - 1)
  <2>1. Cardinality(keys) \in Nat
    BY <1>1, KeysAreFinite
  <2>2. PICK n \in Nat, m \in Nat : n = Cardinality(keys) /\ m = Cardinality(Below(k))
    BY <1>2, <2>1
  <2>3. m < n /\ Before(rows, keys, k) = m
    BY <1>2, <2>2
  <2>4. QED
    BY <2>2, <2>3
<1>4. ASSUME Precedes(rows, j, k) PROVE Cardinality(Below(j)) < Cardinality(Below(k))
  <2>1. Below(j) \in SUBSET Below(k)
    BY <1>4, PrecedesOrders
  <2>2. j \in Below(k) /\ j \notin Below(j)
    BY <1>4, PrecedesOrders
  <2>3. Cardinality(Below(j)) <= Cardinality(Below(k)) /\ Cardinality(Below(k)) # Cardinality(Below(j))
    BY <1>2, <2>1, <2>2, FS_Subset
  <2>4. PICK n \in Nat, m \in Nat : n = Cardinality(Below(k)) /\ m = Cardinality(Below(j))
    BY <1>2
  <2>5. QED
    BY <2>3, <2>4
<1>5. QED
  BY <1>2, <1>3, <1>4

(* InOrder lists every row once, each with the rows before it. *)
LEMMA InOrderLists ==
  ASSUME NEW rows \in Tables, NEW keys \in SUBSET DOMAIN rows
  PROVE  /\ InOrder(rows, keys) \in [1..Cardinality(keys) -> keys]
         /\ Cardinality(keys) \in Nat
         /\ \A i \in 1..Cardinality(keys) : Before(rows, keys, InOrder(rows, keys)[i]) = i - 1
<1>1. PICK n \in Nat : n = Cardinality(keys) /\ IsFiniteSet(keys)
  <2>1. keys \in SUBSET Keys
    BY TableOf
  <2>2. QED
    BY <2>1, KeysAreFinite
<1> DEFINE rank == [k \in keys |-> Before(rows, keys, k)]
<1>2. rank \in [keys -> 0..(n - 1)]
  BY <1>1, BeforeGrows
<1>3. ASSUME NEW j \in keys, NEW k \in keys, rank[j] = rank[k] PROVE j = k
  <2>1. j = k \/ Precedes(rows, j, k) \/ Precedes(rows, k, j)
    BY PrecedesOrders
  <2>2. rank[j] = Before(rows, keys, j) /\ rank[k] = Before(rows, keys, k)
    OBVIOUS
  <2>3. rank[j] \in 0..(n - 1) /\ rank[k] \in 0..(n - 1)
    BY <1>2
  <2>4. Precedes(rows, j, k) => rank[j] < rank[k]
    BY <2>2, BeforeGrows
  <2>5. Precedes(rows, k, j) => rank[k] < rank[j]
    BY <2>2, BeforeGrows
  <2>6. QED
    BY <1>3, <2>1, <2>3, <2>4, <2>5
<1>4. rank \in Injection(keys, 0..(n - 1))
  BY <1>2, <1>3 DEF Injection, IsInjective
<1>5. IsFiniteSet(0..(n - 1)) /\ Cardinality(0..(n - 1)) = n
  <2>1. 0 \in Int /\ n - 1 \in Int
    OBVIOUS
  <2>2. QED
    BY <2>1, FS_Interval
<1>6. rank \in Surjection(keys, 0..(n - 1))
  BY <1>1, <1>4, <1>5, FS_Injection
<1>7. ASSUME NEW i \in 1..n PROVE \E k \in keys : Before(rows, keys, k) = i - 1
  <2>1. i - 1 \in 0..(n - 1)
    OBVIOUS
  <2>2. \E k \in keys : rank[k] = i - 1
    BY <1>6, <2>1 DEF Surjection
  <2>3. QED
    BY <2>2
<1> HIDE DEF rank
<1>8. QED
  BY <1>1, <1>7 DEF InOrder

(* The first row is before every other. *)
LEMMA OldestFirst ==
  ASSUME NEW rows \in Tables, NEW keys \in SUBSET DOMAIN rows, keys # {}
  PROVE  /\ InOrder(rows, keys)[1] \in keys
         /\ \A k \in keys : k = InOrder(rows, keys)[1] \/ Precedes(rows, InOrder(rows, keys)[1], k)
<1>1. PICK n \in Nat : n = Cardinality(keys) /\ IsFiniteSet(keys)
  <2>1. keys \in SUBSET Keys
    BY TableOf
  <2>2. QED
    BY <2>1, KeysAreFinite
<1>2. n # 0
  BY <1>1, FS_EmptySet
<1>3. PICK old \in keys : old = InOrder(rows, keys)[1] /\ Before(rows, keys, old) = 0
  BY <1>1, <1>2, InOrderLists
<1>4. ASSUME NEW k \in keys, k # old PROVE Precedes(rows, old, k)
  <2>1. Precedes(rows, old, k) \/ Precedes(rows, k, old)
    BY <1>4, PrecedesOrders
  <2>2. ~Precedes(rows, k, old)
    <3>1. Before(rows, keys, k) \in 0..(n - 1)
      BY <1>1, BeforeGrows
    <3>2. Precedes(rows, k, old) => Before(rows, keys, k) < Before(rows, keys, old)
      BY BeforeGrows
    <3>3. QED
      BY <1>3, <3>1, <3>2
  <2>3. QED
    BY <2>1, <2>2
<1>5. QED
  BY <1>3, <1>4

(* The next order is greater than every one. *)
LEMMA NextIsLast ==
  ASSUME NEW rows \in Tables
  PROVE  NextOrder(rows) \in Int /\ \A k \in DOMAIN rows : rows[k].order < NextOrder(rows)
<1>1. \A k \in DOMAIN rows : rows[k].order \in Int
  BY TableOf DEF ModelRow
<1>2. CASE DOMAIN rows = {}
  BY <1>2 DEF NextOrder
<1>3. CASE DOMAIN rows # {}
  <2>1. PICK keys \in SUBSET DOMAIN rows : keys = DOMAIN rows
    OBVIOUS
  <2>2. PICK n \in Nat : n = Cardinality(keys) /\ IsFiniteSet(keys)
    <3>1. keys \in SUBSET Keys
      BY TableOf
    <3>2. QED
      BY <3>1, KeysAreFinite
  <2>3. n # 0
    BY <1>3, <2>1, <2>2, FS_EmptySet
  <2>4. PICK last \in keys : Before(rows, keys, last) = n - 1
    <3>1. n \in 1..n
      BY <2>3
    <3>2. QED
      BY <2>2, <3>1, InOrderLists
  <2>5. ASSUME NEW k \in keys PROVE rows[k].order <= rows[last].order
    <3>1. k = last \/ Precedes(rows, k, last) \/ Precedes(rows, last, k)
      BY PrecedesOrders
    <3>2. ~Precedes(rows, last, k)
      <4>1. Before(rows, keys, k) \in 0..(n - 1)
        BY <2>2, BeforeGrows
      <4>2. Precedes(rows, last, k) => Before(rows, keys, last) < Before(rows, keys, k)
        BY BeforeGrows
      <4>3. QED
        BY <2>4, <4>1, <4>2
    <3>3. QED
      BY <1>1, <3>1, <3>2, PrecedesOrders
  <2>6. \E m \in Orders(rows) : \A l \in Orders(rows) : l <= m
    BY <2>1, <2>5 DEF Orders
  <2>7. Greatest(Orders(rows)) \in Orders(rows) /\ \A l \in Orders(rows) : l <= Greatest(Orders(rows))
    BY <2>6 DEF Greatest
  <2>8. Greatest(Orders(rows)) \in Int
    BY <1>1, <2>7 DEF Orders
  <2>9. \A k \in DOMAIN rows : rows[k].order <= Greatest(Orders(rows))
    BY <2>7 DEF Orders
  <2>10. QED
    BY <1>1, <1>3, <2>8, <2>9 DEF NextOrder
<1>4. QED
  BY <1>2, <1>3

(* Normalizing keeps the order. *)
LEMMA NormalizedKeeps ==
  ASSUME NEW rows \in Tables
  PROVE  /\ Normalized(rows) \in Tables /\ DOMAIN Normalized(rows) = DOMAIN rows
         /\ \A k \in DOMAIN rows :
              /\ Normalized(rows)[k].enabled = rows[k].enabled
              /\ Normalized(rows)[k].removed = rows[k].removed
         /\ \A j, k \in DOMAIN rows :
              Precedes(rows, j, k) => /\ Normalized(rows)[j].order < Normalized(rows)[k].order
                                      /\ Precedes(Normalized(rows), j, k)
<1>1. PICK keys \in SUBSET DOMAIN rows : keys = DOMAIN rows
  OBVIOUS
<1>2. PICK n \in Nat : n = Cardinality(keys)
  BY <1>1, TableOf, KeysAreFinite
<1>3. \A k \in keys : Before(rows, keys, k) \in Nat
  BY <1>2, BeforeGrows
<1>4. ASSUME NEW k \in keys
      PROVE  /\ Normalized(rows)[k] = [rows[k] EXCEPT !.order = (1 - n) + Before(rows, keys, k)]
             /\ rows[k] \in ModelRow
  BY <1>1, <1>2, TableOf DEF Normalized
<1>5. ASSUME NEW k \in keys
      PROVE  /\ Normalized(rows)[k] \in ModelRow
             /\ Normalized(rows)[k].enabled = rows[k].enabled
             /\ Normalized(rows)[k].removed = rows[k].removed
             /\ Normalized(rows)[k].order = (1 - n) + Before(rows, keys, k)
  <2>1. (1 - n) + Before(rows, keys, k) \in Int
    BY <1>3
  <2>2. QED
    BY <1>4, <2>1 DEF ModelRow
<1>6. DOMAIN Normalized(rows) = keys
  BY <1>1 DEF Normalized
<1>7. Normalized(rows) \in Tables
  <2>1. Normalized(rows) \in [keys -> ModelRow]
    <3>1. Normalized(rows) = [k \in keys |-> Normalized(rows)[k]]
      BY <1>1, <1>6 DEF Normalized
    <3>2. QED
      BY <1>5, <3>1
  <2>2. keys \in SUBSET Keys
    BY TableOf
  <2>3. QED
    BY <2>1, <2>2, TableOf
<1>8. ASSUME NEW j \in keys, NEW k \in keys, Precedes(rows, j, k)
      PROVE  Normalized(rows)[j].order < Normalized(rows)[k].order
  <2>1. Before(rows, keys, j) < Before(rows, keys, k)
    BY <1>8, BeforeGrows
  <2>2. QED
    BY <1>3, <1>5, <2>1
<1>9. QED
  BY <1>1, <1>5, <1>6, <1>7, <1>8 DEF Precedes

-----------------------------------------------------------------------------
(* Claims *)

Active(rows) == {k \in DOMAIN rows : rows[k].enabled /\ ~rows[k].removed}
InClaimOrder(cs, rows) ==
  \A i, j \in 1..Len(cs) : i < j /\ cs[i][2] = cs[j][2] => Precedes(rows, cs[i], cs[j])
\* cs claims the rows that are enabled, in their order.
Tracks(cs, rows) ==
  /\ cs \in Seq(Keys)
  /\ \A k \in Keys : (\E i \in 1..Len(cs) : cs[i] = k) <=> k \in Active(rows)
  /\ InClaimOrder(cs, rows)

LEMMA ClaimActive ==
  ASSUME NEW rows \in Tables, NEW cs, Tracks(cs, rows), NEW i \in 1..Len(cs)
  PROVE  cs[i] \in Active(rows) /\ cs[i] \in Keys /\ cs[i] \in DOMAIN rows
<1>1. cs[i] \in Keys
  BY DEF Tracks
<1>2. QED
  BY <1>1 DEF Tracks, Active

(* Rows that are removed or disabled lose their claim. *)
LEMMA TracksKept ==
  ASSUME NEW rows \in Tables, NEW after \in Tables, NEW cs, Tracks(cs, rows), NEW keep,
         \A k \in Keys : k \in Active(after) <=> k \in Active(rows) /\ k \in keep,
         \A k \in Active(after) : after[k].order = rows[k].order
  PROVE  Tracks(Kept(cs, keep), after)
<1>1. cs \in Seq(Keys)
  BY DEF Tracks
<1>2. PICK ds \in Seq(Keys) : ds = Kept(cs, keep)
  BY <1>1, KeptType
<1>3. \A k \in Keys : (\E i \in 1..Len(ds) : ds[i] = k) <=> k \in Active(after)
  BY <1>1, <1>2, KeptElements DEF Tracks
<1> DEFINE R == {w \in Keys \X Keys : w[1][2] = w[2][2] => Precedes(rows, w[1], w[2])}
<1>4. \A i, j \in 1..Len(cs) : i < j => <<cs[i], cs[j]>> \in R
  <2>1. \A i \in 1..Len(cs) : cs[i] \in Keys
    BY <1>1
  <2>2. QED
    BY <2>1 DEF Tracks, InClaimOrder
<1>5. \A j \in Keys, k \in Keys : <<j, k>> \in R /\ j[2] = k[2] => Precedes(rows, j, k)
  OBVIOUS
<1> HIDE DEF R
<1>6. \A i, j \in 1..Len(ds) : i < j => <<ds[i], ds[j]>> \in R
  BY <1>1, <1>2, <1>4, KeptOrdered
<1>7. InClaimOrder(ds, after)
  <2> SUFFICES ASSUME NEW i \in 1..Len(ds), NEW j \in 1..Len(ds), i < j, ds[i][2] = ds[j][2]
               PROVE  Precedes(after, ds[i], ds[j])
    BY DEF InClaimOrder
  <2>1. ds[i] \in Keys /\ ds[j] \in Keys
    OBVIOUS
  <2>2. Precedes(rows, ds[i], ds[j])
    BY <1>5, <1>6, <2>1
  <2>3. ds[i] \in Active(after) /\ ds[j] \in Active(after)
    BY <1>3, <2>1
  <2>4. QED
    BY <2>2, <2>3 DEF Precedes
<1>8. QED
  BY <1>2, <1>3, <1>7 DEF Tracks

(* A row with the greatest order makes the newest claim. *)
LEMMA TracksAppend ==
  ASSUME NEW rows \in Tables, NEW after \in Tables, NEW cs, Tracks(cs, rows), NEW k \in Keys,
         Active(after) = Active(rows) \cup {k},
         \A j \in Active(rows) : after[j].order = rows[j].order /\ after[j].order < after[k].order
  PROVE  Tracks(Append(cs, k), after)
<1>1. PICK n \in Nat : n = Len(cs) /\ cs \in Seq(Keys)
  BY DEF Tracks
<1>2. PICK ds \in Seq(Keys) : ds = Append(cs, k)
  <2>1. Append(cs, k) \in Seq(Keys)
    BY <1>1
  <2>2. QED
    BY <2>1
<1>3. Len(ds) = n + 1 /\ ds[n + 1] = k /\ \A i \in 1..n : ds[i] = cs[i]
  BY <1>1, <1>2
<1>4. ASSUME NEW l \in Keys
      PROVE  (\E i \in 1..Len(ds) : ds[i] = l) <=> l \in Active(after)
  <2>1. (\E i \in 1..n : cs[i] = l) <=> l \in Active(rows)
    BY <1>1 DEF Tracks
  <2>2. (\E i \in 1..(n + 1) : ds[i] = l) <=> (\E i \in 1..n : cs[i] = l) \/ l = k
    <3>1. n + 1 \in 1..(n + 1) /\ \A i \in 1..(n + 1) : i \in 1..n \/ i = n + 1
      OBVIOUS
    <3>2. \A i \in 1..n : i \in 1..(n + 1)
      OBVIOUS
    <3>3. QED
      BY <1>3, <3>1, <3>2
  <2>3. QED
    BY <1>3, <2>1, <2>2
<1>5. InClaimOrder(ds, after)
  <2> SUFFICES ASSUME NEW i \in 1..(n + 1), NEW j \in 1..(n + 1), i < j, ds[i][2] = ds[j][2]
               PROVE  Precedes(after, ds[i], ds[j])
    BY <1>3 DEF InClaimOrder
  <2>1. i \in 1..n /\ ds[i] = cs[i] /\ cs[i] \in Active(rows)
    BY <1>1, <1>3, ClaimActive
  <2>2. CASE j = n + 1
    BY <1>3, <2>1, <2>2 DEF Precedes
  <2>3. CASE j # n + 1
    <3>1. j \in 1..n /\ ds[j] = cs[j] /\ cs[j] \in Active(rows)
      BY <1>1, <1>3, <2>3, ClaimActive
    <3>2. Precedes(rows, cs[i], cs[j])
      BY <1>1, <2>1, <3>1 DEF Tracks, InClaimOrder
    <3>3. QED
      BY <2>1, <3>1, <3>2 DEF Precedes
  <2>4. QED
    BY <2>2, <2>3
<1>6. QED
  BY <1>2, <1>4, <1>5 DEF Tracks

(* A row before every other of its id is claimed before the first of them. *)
LEMMA TracksInsert ==
  ASSUME NEW rows \in Tables, NEW after \in Tables, NEW cs, Tracks(cs, rows), NEW k \in Keys,
         k \notin Active(rows), Active(after) = Active(rows) \cup {k},
         \A i, j \in Active(rows) : Precedes(rows, i, j) => Precedes(after, i, j),
         \A j \in Active(rows) : j[2] = k[2] => Precedes(after, k, j),
         NEW first \in 1..Len(cs), \A i \in 1..Len(cs) : cs[i][2] = k[2] => first <= i
  PROVE  Tracks(InsertAt(cs, first, k), after)
<1>1. PICK n \in Nat : n = Len(cs) /\ cs \in Seq(Keys)
  BY DEF Tracks
<1>2. PICK ds \in Seq(Keys) :
        /\ ds = InsertAt(cs, first, k)
        /\ Len(ds) = n + 1 /\ ds[first] = k
        /\ \A i \in 1..(n + 1) : i < first => ds[i] = cs[i]
        /\ \A i \in 1..(n + 1) : first < i => ds[i] = cs[i - 1]
  <2>1. PICK a \in Seq(Keys), b \in Seq(Keys) :
          a = SubSeq(cs, 1, first - 1) /\ b = SubSeq(cs, first, n)
    <3>1. SubSeq(cs, 1, first - 1) \in Seq(Keys) /\ SubSeq(cs, first, n) \in Seq(Keys)
      BY <1>1
    <3>2. QED
      BY <3>1
  <2>2. /\ Len(a) = first - 1 /\ \A i \in 1..(first - 1) : a[i] = cs[i]
        /\ Len(b) = n - first + 1 /\ \A i \in 1..(n - first + 1) : b[i] = cs[first + i - 1]
    BY <1>1, <2>1
  <2>3. PICK c \in Seq(Keys) : c = a \o <<k>>
    <3>1. a \o <<k>> \in Seq(Keys)
      OBVIOUS
    <3>2. QED
      BY <3>1
  <2>4. Len(c) = first /\ c[first] = k /\ \A i \in 1..(first - 1) : c[i] = cs[i]
    <3>1. PICK m \in Nat : m = first - 1
      BY <1>1
    <3>2. Len(a) = m /\ \A i \in 1..m : a[i] = cs[i]
      BY <2>2, <3>1
    <3>3. Len(c) = m + 1 /\ c[m + 1] = k /\ \A i \in 1..m : c[i] = a[i]
      <4>1. PICK l \in Nat : l = Len(a)
        OBVIOUS
      <4>2. Len(c) = l + 1 /\ c[l + 1] = k /\ \A i \in 1..l : c[i] = a[i]
        BY <2>3, <4>1
      <4>3. l = m
        BY <3>2, <4>1
      <4>4. QED
        BY <4>2, <4>3
    <3>4. m + 1 = first
      BY <1>1, <3>1
    <3>5. QED
      BY <3>1, <3>2, <3>3, <3>4
  <2>5. PICK ds \in Seq(Keys) : ds = c \o b
    <3>1. c \o b \in Seq(Keys)
      OBVIOUS
    <3>2. QED
      BY <3>1
  <2>6. Len(ds) = n + 1 /\ (\A i \in 1..first : ds[i] = c[i])
        /\ \A i \in (first + 1)..(n + 1) : ds[i] = b[i - first]
    BY <1>1, <2>2, <2>4, <2>5
  <2>7. ds[first] = k /\ \A i \in 1..(n + 1) : i < first => ds[i] = cs[i]
    <3>1. first \in 1..first /\ \A i \in 1..(n + 1) : i < first => i \in 1..first /\ i \in 1..(first - 1)
      BY <1>1
    <3>2. QED
      BY <2>4, <2>6, <3>1
  <2>8. ASSUME NEW i \in 1..(n + 1), first < i PROVE ds[i] = cs[i - 1]
    <3>1. i - first \in 1..(n - first + 1) /\ first + (i - first) - 1 = i - 1
          /\ i \in (first + 1)..(n + 1)
      BY <1>1, <2>8
    <3>2. QED
      BY <2>2, <2>6, <3>1
  <2>9. ds = InsertAt(cs, first, k)
    BY <1>1, <2>1, <2>3, <2>5 DEF InsertAt
  <2>10. QED
    BY <2>6, <2>7, <2>8, <2>9
<1>3. ASSUME NEW l \in Keys
      PROVE  (\E i \in 1..Len(ds) : ds[i] = l) <=> l \in Active(after)
  <2>1. (\E i \in 1..n : cs[i] = l) <=> l \in Active(rows)
    BY <1>1 DEF Tracks
  <2>2. ASSUME NEW i \in 1..(n + 1), ds[i] = l PROVE l = k \/ \E j \in 1..n : cs[j] = l
    <3>1. CASE i = first
      BY <1>2, <2>2, <3>1
    <3>2. CASE i < first
      <4>1. i \in 1..n /\ cs[i] = l
        BY <1>1, <1>2, <2>2, <3>2
      <4>2. QED
        BY <4>1
    <3>3. CASE first < i
      <4>1. i - 1 \in 1..n /\ cs[i - 1] = l
        BY <1>1, <1>2, <2>2, <3>3
      <4>2. QED
        BY <4>1
    <3>4. QED
      BY <1>1, <3>1, <3>2, <3>3
  <2>3. ASSUME NEW j \in 1..n, cs[j] = l PROVE \E i \in 1..(n + 1) : ds[i] = l
    <3>1. CASE j < first
      <4>1. j \in 1..(n + 1) /\ ds[j] = l
        BY <1>2, <2>3, <3>1
      <4>2. QED
        BY <4>1
    <3>2. CASE ~(j < first)
      <4>1. j + 1 \in 1..(n + 1) /\ first < j + 1 /\ (j + 1) - 1 = j
        BY <1>1, <3>2
      <4>2. ds[j + 1] = l
        BY <1>2, <2>3, <4>1
      <4>3. QED
        BY <4>1, <4>2
    <3>3. QED
      BY <3>1, <3>2
  <2>4. first \in 1..(n + 1) /\ ds[first] = k
    BY <1>1, <1>2
  <2>5. QED
    BY <1>2, <2>1, <2>2, <2>3, <2>4
<1>4. ASSUME NEW i \in 1..n PROVE cs[i] \in Active(rows)
  BY <1>1, ClaimActive
<1>5. ASSUME NEW i \in 1..n, NEW j \in 1..n, i < j, cs[i][2] = cs[j][2]
      PROVE  Precedes(after, cs[i], cs[j])
  <2>1. Precedes(rows, cs[i], cs[j])
    BY <1>1, <1>5 DEF Tracks, InClaimOrder
  <2>2. QED
    BY <1>4, <2>1
<1>6. InClaimOrder(ds, after)
  <2> SUFFICES ASSUME NEW i \in 1..(n + 1), NEW j \in 1..(n + 1), i < j, ds[i][2] = ds[j][2]
               PROVE  Precedes(after, ds[i], ds[j])
    BY <1>2 DEF InClaimOrder
  <2>1. CASE i = first
    <3>1. j - 1 \in 1..n /\ ds[j] = cs[j - 1]
      BY <1>1, <1>2, <2>1
    <3>2. cs[j - 1][2] = k[2] /\ ds[i] = k
      BY <1>2, <2>1, <3>1
    <3>3. QED
      BY <1>4, <3>1, <3>2
  <2>2. CASE j = first
    <3>1. i \in 1..n /\ ds[i] = cs[i]
      BY <1>1, <1>2, <2>2
    <3>2. cs[i][2] = k[2]
      BY <1>2, <2>2, <3>1
    <3>3. first <= i
      BY <1>1, <3>1, <3>2
    <3>4. QED
      BY <2>2, <3>3
  <2>3. CASE i < first /\ j < first
    <3>1. i \in 1..n /\ j \in 1..n /\ ds[i] = cs[i] /\ ds[j] = cs[j]
      BY <1>1, <1>2, <2>3
    <3>2. QED
      BY <1>5, <3>1
  <2>4. CASE i < first /\ first < j
    <3>1. i \in 1..n /\ j - 1 \in 1..n /\ ds[i] = cs[i] /\ ds[j] = cs[j - 1] /\ i < j - 1
      BY <1>1, <1>2, <2>4
    <3>2. QED
      BY <1>5, <3>1
  <2>5. CASE first < i /\ first < j
    <3>1. i - 1 \in 1..n /\ j - 1 \in 1..n /\ ds[i] = cs[i - 1] /\ ds[j] = cs[j - 1] /\ i - 1 < j - 1
      BY <1>1, <1>2, <2>5
    <3>2. QED
      BY <1>5, <3>1
  <2>6. QED
    BY <1>1, <2>1, <2>2, <2>3, <2>4, <2>5
<1>7. QED
  BY <1>2, <1>3, <1>6 DEF Tracks

-----------------------------------------------------------------------------
(* Writing rows *)

LEMMA NoneIsNo ==
  /\ None \notin Provider /\ None \notin Entry /\ None \notin Ids
  /\ None \notin Providers /\ None \notin Versions
BY ConstantsAssumption

LEMMA WithRowType ==
  ASSUME NEW rows \in Tables, NEW k \in Keys, NEW r \in ModelRow
  PROVE  /\ WithRow(rows, k, r) \in Tables /\ DOMAIN WithRow(rows, k, r) = DOMAIN rows \cup {k}
         /\ WithRow(rows, k, r)[k] = r
         /\ \A j \in DOMAIN rows : j # k => WithRow(rows, k, r)[j] = rows[j]
<1>1. rows \in [DOMAIN rows -> ModelRow] /\ DOMAIN rows \cup {k} \in SUBSET Keys
  BY TableOf
<1>2. WithRow(rows, k, r) \in [DOMAIN rows \cup {k} -> ModelRow]
  BY <1>1 DEF WithRow
<1>3. WithRow(rows, k, r) \in Tables
  BY <1>1, <1>2, TableOf
<1>4. QED
  BY <1>3 DEF WithRow

LEMMA WithoutRowsType ==
  ASSUME NEW rows \in Tables, NEW keys
  PROVE  /\ WithoutRows(rows, keys) \in Tables
         /\ DOMAIN WithoutRows(rows, keys) = DOMAIN rows \ keys
         /\ \A j \in DOMAIN rows \ keys : WithoutRows(rows, keys)[j] = rows[j]
<1>1. rows \in [DOMAIN rows -> ModelRow] /\ DOMAIN rows \ keys \in SUBSET Keys
  BY TableOf
<1>2. WithoutRows(rows, keys) \in [DOMAIN rows \ keys -> ModelRow]
  BY <1>1 DEF WithoutRows
<1>3. WithoutRows(rows, keys) \in Tables
  BY <1>1, <1>2, TableOf
<1>4. QED
  BY <1>3 DEF WithoutRows

(* The rows of a provider that is deleted take their claims with them. *)
LEMMA DroppedTracks ==
  ASSUME NEW rows \in Tables, NEW cs, Tracks(cs, rows), NEW p \in Providers
  PROVE  Tracks(Kept(cs, {k \in Keys : k[1] # p}), WithoutRows(rows, RowsOf(rows, p)))
<1>1. PICK after \in Tables : after = WithoutRows(rows, RowsOf(rows, p))
  BY WithoutRowsType
<1>2. /\ DOMAIN after = DOMAIN rows \ RowsOf(rows, p)
      /\ \A j \in DOMAIN after : after[j] = rows[j]
  BY <1>1, WithoutRowsType
<1>3. PICK keep : keep = {k \in Keys : k[1] # p}
  OBVIOUS
<1>4. \A k \in Keys : k \in Active(after) <=> k \in Active(rows) /\ k \in keep
  BY <1>2, <1>3 DEF Active, RowsOf
<1>5. \A k \in Active(after) : after[k].order = rows[k].order
  BY <1>2 DEF Active
<1>6. Tracks(Kept(cs, keep), after)
  BY <1>4, <1>5, TracksKept
<1>7. QED
  BY <1>1, <1>3, <1>6

(* A row that goes loses its claim. *)
LEMMA RemovedTracks ==
  ASSUME NEW rows \in Tables, NEW cs, Tracks(cs, rows), NEW k \in Keys
  PROVE  Tracks(Kept(cs, Keys \ {k}), WithoutRows(rows, {k}))
<1>1. PICK after \in Tables : after = WithoutRows(rows, {k})
  BY WithoutRowsType
<1>2. DOMAIN after = DOMAIN rows \ {k} /\ \A j \in DOMAIN after : after[j] = rows[j]
  BY <1>1, WithoutRowsType
<1>3. PICK keep : keep = Keys \ {k}
  OBVIOUS
<1>4. \A j \in Keys : j \in Active(after) <=> j \in Active(rows) /\ j \in keep
  BY <1>2, <1>3 DEF Active
<1>5. \A j \in Active(after) : after[j].order = rows[j].order
  BY <1>2 DEF Active
<1>6. Tracks(Kept(cs, keep), after)
  BY <1>4, <1>5, TracksKept
<1>7. QED
  BY <1>1, <1>3, <1>6

(* A row that is written disabled or removed loses its claim, and one that *)
(* is written enabled goes last.                                           *)
LEMMA WrittenTracks ==
  ASSUME NEW rows \in Tables, NEW cs, Tracks(cs, rows), NEW k \in Keys, NEW r \in ModelRow
  PROVE  /\ ~r.enabled \/ r.removed => Tracks(Kept(cs, Keys \ {k}), WithRow(rows, k, r))
         /\ r.enabled /\ ~r.removed /\ r.order = NextOrder(rows) =>
              Tracks(Append(Kept(cs, Keys \ {k}), k), WithRow(rows, k, r))
<1>1. PICK after \in Tables : after = WithRow(rows, k, r)
  BY WithRowType
<1>2. /\ DOMAIN after = DOMAIN rows \cup {k} /\ after[k] = r
      /\ \A j \in DOMAIN rows : j # k => after[j] = rows[j]
  BY <1>1, WithRowType
<1>3. PICK mid \in Tables : mid = WithoutRows(rows, {k})
  BY WithoutRowsType
<1>4. DOMAIN mid = DOMAIN rows \ {k} /\ \A j \in DOMAIN mid : mid[j] = rows[j]
  BY <1>3, WithoutRowsType
<1>5. PICK ds : ds = Kept(cs, Keys \ {k})
  OBVIOUS
<1>6. Tracks(ds, mid)
  BY <1>3, <1>5, RemovedTracks
<1>7. ASSUME ~r.enabled \/ r.removed PROVE Tracks(ds, after)
  <2>1. PICK keep : keep = Keys \ {k}
    OBVIOUS
  <2>2. \A j \in Keys : j \in Active(after) <=> j \in Active(rows) /\ j \in keep
    BY <1>2, <1>7, <2>1 DEF Active
  <2>3. \A j \in Active(after) : after[j].order = rows[j].order
    BY <1>2, <1>7 DEF Active
  <2>4. Tracks(Kept(cs, keep), after)
    BY <2>2, <2>3, TracksKept
  <2>5. QED
    BY <1>5, <2>1, <2>4
<1>8. ASSUME r.enabled, ~r.removed, r.order = NextOrder(rows) PROVE Tracks(Append(ds, k), after)
  <2>1. Active(after) = Active(mid) \cup {k}
    BY <1>2, <1>4, <1>8 DEF Active
  <2>2. \A j \in DOMAIN rows : rows[j].order < NextOrder(rows)
    BY NextIsLast
  <2>3. \A j \in Active(mid) : after[j].order = mid[j].order /\ after[j].order < after[k].order
    BY <1>2, <1>4, <1>8, <2>2 DEF Active
  <2>4. QED
    BY <1>6, <2>1, <2>3, TracksAppend
<1>9. QED
  BY <1>1, <1>5, <1>7, <1>8

LEMMA UpsertedTracks ==
  ASSUME NEW rows \in Tables, NEW k \in Keys, NEW e \in Entry, NEW created \in BOOLEAN
  PROVE  /\ UpsertedRow(rows, k, e, created) \in Tables
         /\ \A cs : Tracks(cs, rows) =>
              Tracks(IF e.enabled THEN Append(Kept(cs, Keys \ {k}), k) ELSE Kept(cs, Keys \ {k}),
                     UpsertedRow(rows, k, e, created))
<1> DEFINE r == [enabled |-> e.enabled, removed |-> FALSE, json |-> e,
                 uiCreated |-> IF k \in DOMAIN rows THEN rows[k].uiCreated ELSE created,
                 order |-> NextOrder(rows)]
<1>1. r \in ModelRow
  <2>1. (IF k \in DOMAIN rows THEN rows[k].uiCreated ELSE created) \in BOOLEAN
    BY TableOf DEF ModelRow
  <2>2. e.enabled \in BOOLEAN
    BY DEF Entry
  <2>3. NextOrder(rows) \in Int
    BY NextIsLast
  <2>4. QED
    BY <2>1, <2>2, <2>3 DEF ModelRow
<1>2. UpsertedRow(rows, k, e, created) = WithRow(rows, k, r)
  BY DEF UpsertedRow
<1>3. r.enabled = e.enabled /\ ~r.removed /\ r.order = NextOrder(rows)
  OBVIOUS
<1> HIDE DEF r
<1>4. UpsertedRow(rows, k, e, created) \in Tables
  <2>1. WithRow(rows, k, r) \in Tables
    BY <1>1, WithRowType
  <2>2. QED
    BY <2>1, <1>2
<1>5. ASSUME NEW cs, Tracks(cs, rows)
      PROVE  Tracks(IF e.enabled THEN Append(Kept(cs, Keys \ {k}), k) ELSE Kept(cs, Keys \ {k}), UpsertedRow(rows, k, e, created))
  <2>1. e.enabled \in BOOLEAN
    BY DEF Entry
  <2>2. CASE e.enabled
    BY <1>1, <1>2, <1>3, <1>5, <2>2, WrittenTracks
  <2>3. CASE ~e.enabled
    BY <1>1, <1>2, <1>3, <1>5, <2>3, WrittenTracks
  <2>4. QED
    BY <2>1, <2>2, <2>3
<1>6. QED
  BY <1>4, <1>5

LEMMA ToggledTracks ==
  ASSUME NEW rows \in Tables, NEW k \in Keys, NEW b \in BOOLEAN
  PROVE  /\ ToggledRow(rows, k, b) \in Tables
         /\ k \in DOMAIN ToggledRow(rows, k, b)
         /\ \A cs : Tracks(cs, rows) =>
              Tracks(IF b THEN Append(Kept(cs, Keys \ {k}), k) ELSE Kept(cs, Keys \ {k}),
                     ToggledRow(rows, k, b))
<1>1. NextOrder(rows) \in Int
  BY NextIsLast
<1>2. PICK r \in ModelRow :
        /\ ToggledRow(rows, k, b) = WithRow(rows, k, r)
        /\ r.enabled = b /\ ~r.removed /\ r.order = NextOrder(rows)
  <2>1. CASE k \in DOMAIN rows
    <3> DEFINE json == IF rows[k].json = None THEN None ELSE [rows[k].json EXCEPT !.enabled = b]
               r == [rows[k] EXCEPT !.enabled = b, !.removed = FALSE,
                                    !.json = json, !.order = NextOrder(rows)]
    <3>1. rows[k] \in ModelRow
      BY <2>1, TableOf
    <3>2. json \in Entry \cup {None}
      BY <3>1 DEF ModelRow, Entry
    <3>3. ToggledRow(rows, k, b) = WithRow(rows, k, r)
      BY <2>1 DEF ToggledRow
    <3> HIDE DEF json
    <3>4. r \in ModelRow /\ r.enabled = b /\ ~r.removed /\ r.order = NextOrder(rows)
      BY <1>1, <3>1, <3>2 DEF ModelRow
    <3> HIDE DEF r
    <3>5. QED
      BY <3>3, <3>4
  <2>2. CASE k \notin DOMAIN rows
    <3> DEFINE r == [enabled |-> b, removed |-> FALSE, json |-> None,
                     uiCreated |-> FALSE, order |-> NextOrder(rows)]
    <3>1. ToggledRow(rows, k, b) = WithRow(rows, k, r)
      BY <2>2 DEF ToggledRow
    <3>2. r \in ModelRow /\ r.enabled = b /\ ~r.removed /\ r.order = NextOrder(rows)
      BY <1>1 DEF ModelRow
    <3> HIDE DEF r
    <3>3. QED
      BY <3>1, <3>2
  <2>3. QED
    BY <2>1, <2>2
<1>3. ToggledRow(rows, k, b) \in Tables /\ k \in DOMAIN ToggledRow(rows, k, b)
  <2>1. WithRow(rows, k, r) \in Tables
    BY WithRowType
  <2>2. DOMAIN WithRow(rows, k, r) = DOMAIN rows \cup {k}
    BY WithRowType
  <2>3. QED
    BY <1>2, <2>1, <2>2
<1>4. ASSUME NEW cs, Tracks(cs, rows)
      PROVE  Tracks(IF b THEN Append(Kept(cs, Keys \ {k}), k) ELSE Kept(cs, Keys \ {k}),
                    ToggledRow(rows, k, b))
  <2>1. CASE b
    BY <1>2, <1>4, <2>1, WrittenTracks
  <2>2. CASE ~b
    BY <1>2, <1>4, <2>2, WrittenTracks
  <2>3. QED
    BY <2>1, <2>2
<1>5. QED
  BY <1>3, <1>4

LEMMA SoftRemovedTracks ==
  ASSUME NEW rows \in Tables, NEW k \in Keys, NEW e \in Entry
  PROVE  /\ SoftRemovedRow(rows, k, e) \in Tables
         /\ \A cs : Tracks(cs, rows) => Tracks(Kept(cs, Keys \ {k}), SoftRemovedRow(rows, k, e))
<1>1. PICK r \in ModelRow : SoftRemovedRow(rows, k, e) = WithRow(rows, k, r) /\ ~r.enabled
  <2>1. CASE k \in DOMAIN rows
    <3> DEFINE r == [rows[k] EXCEPT !.enabled = FALSE, !.removed = TRUE, !.json = e]
    <3>1. rows[k] \in ModelRow /\ DOMAIN rows \cup {k} = DOMAIN rows
      BY <2>1, TableOf
    <3>2. r \in ModelRow /\ ~r.enabled
      BY <3>1 DEF ModelRow
    <3>3. SoftRemovedRow(rows, k, e) = [rows EXCEPT ![k] = r]
      BY <2>1 DEF SoftRemovedRow
    <3> HIDE DEF r
    <3>4. [rows EXCEPT ![k] = r] = WithRow(rows, k, r)
      BY <3>1, TableOf DEF WithRow
    <3>5. QED
      BY <3>2, <3>3, <3>4
  <2>2. CASE k \notin DOMAIN rows
    <3> DEFINE r == [enabled |-> FALSE, removed |-> TRUE, json |-> e,
                     uiCreated |-> FALSE, order |-> 0]
    <3>1. SoftRemovedRow(rows, k, e) = WithRow(rows, k, r)
      BY <2>2 DEF SoftRemovedRow
    <3>2. r \in ModelRow /\ ~r.enabled
      BY DEF ModelRow
    <3> HIDE DEF r
    <3>3. QED
      BY <3>1, <3>2
  <2>3. QED
    BY <2>1, <2>2
<1>2. SoftRemovedRow(rows, k, e) \in Tables
  <2>1. WithRow(rows, k, r) \in Tables
    BY WithRowType
  <2>2. QED
    BY <2>1, <1>1
<1>3. ASSUME NEW cs, Tracks(cs, rows)
      PROVE  Tracks(Kept(cs, Keys \ {k}), SoftRemovedRow(rows, k, e))
  BY <1>1, <1>3, WrittenTracks
<1>4. QED
  BY <1>2, <1>3

LEMMA DisabledTracks ==
  ASSUME NEW rows \in Tables, NEW k \in Keys
  PROVE  /\ DisabledRow(rows, k) \in Tables
         /\ \A cs : Tracks(cs, rows) => Tracks(Kept(cs, Keys \ {k}), DisabledRow(rows, k))
<1>1. PICK r \in ModelRow : DisabledRow(rows, k) = WithRow(rows, k, r) /\ ~r.enabled
  <2>1. CASE k \in DOMAIN rows
    <3> DEFINE r == [rows[k] EXCEPT !.enabled = FALSE, !.removed = FALSE]
    <3>1. rows[k] \in ModelRow /\ DOMAIN rows \cup {k} = DOMAIN rows
      BY <2>1, TableOf
    <3>2. r \in ModelRow /\ ~r.enabled
      BY <3>1 DEF ModelRow
    <3>3. DisabledRow(rows, k) = [rows EXCEPT ![k] = r]
      BY <2>1 DEF DisabledRow
    <3> HIDE DEF r
    <3>4. [rows EXCEPT ![k] = r] = WithRow(rows, k, r)
      BY <3>1, TableOf DEF WithRow
    <3>5. QED
      BY <3>2, <3>3, <3>4
  <2>2. CASE k \notin DOMAIN rows
    <3> DEFINE r == [enabled |-> FALSE, removed |-> FALSE, json |-> None,
                     uiCreated |-> FALSE, order |-> 0]
    <3>1. DisabledRow(rows, k) = WithRow(rows, k, r)
      BY <2>2 DEF DisabledRow
    <3>2. r \in ModelRow /\ ~r.enabled
      BY DEF ModelRow
    <3> HIDE DEF r
    <3>3. QED
      BY <3>1, <3>2
  <2>3. QED
    BY <2>1, <2>2
<1>2. DisabledRow(rows, k) \in Tables
  <2>1. WithRow(rows, k, r) \in Tables
    BY WithRowType
  <2>2. QED
    BY <2>1, <1>1
<1>3. ASSUME NEW cs, Tracks(cs, rows)
      PROVE  Tracks(Kept(cs, Keys \ {k}), DisabledRow(rows, k))
  BY <1>1, <1>3, WrittenTracks
<1>4. QED
  BY <1>2, <1>3

-----------------------------------------------------------------------------
(* The rows of a provider that is created *)

LEMMA FirstClaimIs ==
  ASSUME NEW cs \in Seq(Keys), NEW id
  PROVE  \/ FirstClaim(cs, id) = 0 /\ \A i \in 1..Len(cs) : cs[i][2] # id
         \/ /\ FirstClaim(cs, id) \in 1..Len(cs) /\ FirstClaim(cs, id) # 0
            /\ cs[FirstClaim(cs, id)][2] = id
            /\ \A i \in 1..Len(cs) : cs[i][2] = id => FirstClaim(cs, id) <= i
<1> DEFINE I == {i \in 1..Len(cs) : cs[i][2] = id}
<1>1. FirstClaim(cs, id) = IF I # {} THEN Min(I) ELSE 0
  BY DEF FirstClaim, SelectInSeq
<1>2. CASE I = {}
  BY <1>1, <1>2
<1>3. CASE I # {}
  <2>1. I \in SUBSET Nat
    OBVIOUS
  <2>2. \E i \in I : \A j \in I : i <= j
    BY <1>3, <2>1, LeastNumber
  <2>3. Min(I) \in I /\ \A j \in I : Min(I) <= j
    BY <2>2 DEF Min
  <2>4. QED
    BY <1>1, <1>3, <2>3
<1>4. QED
  BY <1>2, <1>3

LEMMA CreatedClaimType ==
  ASSUME NEW cs \in Seq(Keys), NEW p \in Providers, NEW e \in Entry, NEW preserve \in BOOLEAN
  PROVE  CreatedClaim(cs, p, e, preserve) \in Seq(Keys)
<1>1. PICK k \in Keys : k = <<p, e.id>>
  BY DEF Keys, Entry
<1>2. e.enabled \in BOOLEAN
  BY DEF Entry
<1>3. PICK first : first = FirstClaim(cs, e.id)
  OBVIOUS
<1>4. first = 0 \/ first \in 1..Len(cs)
  BY <1>3, FirstClaimIs
<1>5. ASSUME first \in 1..Len(cs) PROVE InsertAt(cs, first, k) \in Seq(Keys)
  <2>1. SubSeq(cs, 1, first - 1) \in Seq(Keys) /\ SubSeq(cs, first, Len(cs)) \in Seq(Keys)
    BY <1>5
  <2>2. QED
    BY <2>1 DEF InsertAt
<1>6. Append(cs, k) \in Seq(Keys)
  OBVIOUS
<1>7. QED
  BY <1>1, <1>2, <1>3, <1>4, <1>5, <1>6 DEF CreatedClaim

LEMMA CreatedRowNames ==
  ASSUME NEW rows, NEW p, NEW e, NEW preserve, NEW k \in DOMAIN CreatedRow(rows, p, e, preserve)
  PROVE  k \in DOMAIN rows \/ k = <<p, e.id>>
BY DEF CreatedRow, WithRow, Normalized

LEMMA CreatedRowType ==
  ASSUME NEW rows \in Tables, NEW p \in Providers, NEW e \in Entry, NEW preserve \in BOOLEAN
  PROVE  CreatedRow(rows, p, e, preserve) \in Tables
<1>1. PICK k \in Keys : k = <<p, e.id>>
  BY DEF Keys, Entry
<1> DEFINE others == {l \in EnabledRows(rows, e.id) : l[1] # p}
           oldest == InOrder(rows, others)[1]
           row == [enabled |-> e.enabled, removed |-> FALSE, json |-> e,
                   uiCreated |-> FALSE, order |-> NextOrder(rows)]
<1>2. row \in ModelRow
  <2>1. e.enabled \in BOOLEAN
    BY DEF Entry
  <2>2. NextOrder(rows) \in Int
    BY NextIsLast
  <2>3. QED
    BY <2>1, <2>2 DEF ModelRow
<1>3. CASE preserve /\ e.enabled /\ others # {}
  <2>1. others \in SUBSET DOMAIN rows
    BY DEF EnabledRows
  <2>2. oldest \in DOMAIN rows
    BY <1>3, <2>1, OldestFirst
  <2>3. Normalized(rows) \in Tables /\ DOMAIN Normalized(rows) = DOMAIN rows
    BY NormalizedKeeps
  <2>4. Normalized(rows)[oldest].order - 1 \in Int
    BY <2>2, <2>3, TableOf DEF ModelRow
  <2>5. [row EXCEPT !.order = Normalized(rows)[oldest].order - 1] \in ModelRow
    BY <1>2, <2>4 DEF ModelRow
  <2>6. CreatedRow(rows, p, e, preserve) =
          WithRow(Normalized(rows), k, [row EXCEPT !.order = Normalized(rows)[oldest].order - 1])
    BY <1>1, <1>3 DEF CreatedRow
  <2> HIDE DEF others, oldest, row
  <2>7. QED
    <3>1. WithRow(Normalized(rows), k, [row EXCEPT !.order = Normalized(rows)[oldest].order - 1]) \in Tables
      BY <2>3, <2>5, WithRowType
    <3>2. QED
      BY <2>6, <3>1
<1>4. CASE ~(preserve /\ e.enabled /\ others # {})
  <2>1. CreatedRow(rows, p, e, preserve) = WithRow(rows, k, row)
    BY <1>1, <1>4 DEF CreatedRow
  <2> HIDE DEF others, oldest, row
  <2>2. QED
    <3>1. WithRow(rows, k, row) \in Tables
      BY <1>2, WithRowType
    <3>2. QED
      BY <2>1, <3>1
<1>5. QED
  BY <1>3, <1>4

(* The claim of a new row is where its order puts it. *)
LEMMA CreatedTracks ==
  ASSUME NEW rows \in Tables, NEW p \in Providers, NEW e \in Entry, NEW preserve \in BOOLEAN,
         NEW cs, Tracks(cs, rows), <<p, e.id>> \notin DOMAIN rows
  PROVE  Tracks(CreatedClaim(cs, p, e, preserve), CreatedRow(rows, p, e, preserve))
<1>1. PICK k \in Keys : k = <<p, e.id>> /\ k \notin DOMAIN rows /\ k[2] = e.id
  BY DEF Keys, Entry
<1>2. cs \in Seq(Keys)
  BY DEF Tracks
<1> DEFINE others == {l \in EnabledRows(rows, e.id) : l[1] # p}
           oldest == InOrder(rows, others)[1]
           normal == Normalized(rows)
           row == [enabled |-> e.enabled, removed |-> FALSE, json |-> e,
                   uiCreated |-> FALSE, order |-> NextOrder(rows)]
           before == [row EXCEPT !.order = normal[oldest].order - 1]
<1>3. e.enabled \in BOOLEAN /\ NextOrder(rows) \in Int
  BY NextIsLast DEF Entry
<1>4. row \in ModelRow /\ row.enabled = e.enabled /\ ~row.removed /\ row.order = NextOrder(rows)
  BY <1>3 DEF ModelRow
<1>5. \A l \in Keys : l \in others <=> l \in Active(rows) /\ l[2] = e.id
  <2> SUFFICES ASSUME NEW l \in Keys PROVE l \in others <=> l \in Active(rows) /\ l[2] = e.id
    OBVIOUS
  <2>1. l \in DOMAIN rows /\ l[2] = e.id => l[1] # p
    <3>1. l[1] = p /\ l[2] = e.id => l = <<p, e.id>>
      BY DEF Keys
    <3>2. QED
      BY <3>1
  <2>2. QED
    BY <2>1 DEF EnabledRows, Active
<1>6. PICK first : first = FirstClaim(cs, e.id)
  OBVIOUS
<1>7. \/ first = 0 /\ \A i \in 1..Len(cs) : cs[i][2] # e.id
      \/ /\ first \in 1..Len(cs) /\ first # 0 /\ cs[first][2] = e.id
         /\ \A i \in 1..Len(cs) : cs[i][2] = e.id => first <= i
  BY <1>2, <1>6, FirstClaimIs
<1>8. \A l \in Active(rows) : l \in Keys
  BY TableOf DEF Active
<1>9. first # 0 <=> others # {}
  <2>1. ASSUME first # 0 PROVE others # {}
    <3>1. cs[first] \in Keys /\ cs[first] \in Active(rows) /\ cs[first][2] = e.id
      BY <1>7, <2>1, ClaimActive
    <3>2. QED
      BY <1>5, <3>1
  <2>2. ASSUME NEW l \in others PROVE first # 0
    <3>1. l \in Active(rows) /\ l \in Keys /\ l[2] = e.id
      BY <1>5, TableOf DEF EnabledRows
    <3>2. \E i \in 1..Len(cs) : cs[i] = l
      BY <3>1 DEF Tracks
    <3>3. QED
      BY <1>7, <3>1, <3>2
  <2>3. QED
    BY <2>1, <2>2
<1>10. CASE preserve /\ e.enabled /\ others # {}
  <2>1. others \in SUBSET DOMAIN rows
    BY DEF EnabledRows
  <2>2. oldest \in others /\ \A l \in others : l = oldest \/ Precedes(rows, oldest, l)
    BY <1>10, <2>1, OldestFirst
  <2>3. /\ normal \in Tables /\ DOMAIN normal = DOMAIN rows
        /\ \A l \in DOMAIN rows : normal[l].enabled = rows[l].enabled
                                    /\ normal[l].removed = rows[l].removed
        /\ \A j, l \in DOMAIN rows :
             Precedes(rows, j, l) => normal[j].order < normal[l].order /\ Precedes(normal, j, l)
    BY NormalizedKeeps
  <2>4. \A l \in DOMAIN rows : normal[l].order \in Int
    BY <2>3, TableOf DEF ModelRow
  <2>5. before \in ModelRow /\ before.enabled /\ ~before.removed
        /\ before.order = normal[oldest].order - 1
    <3>1. normal[oldest].order \in Int
      BY <2>1, <2>2, <2>4
    <3>2. PICK n \in Int : n = normal[oldest].order - 1
      <4>1. PICK m \in Int : m = normal[oldest].order
        BY <3>1
      <4>2. m - 1 \in Int
        OBVIOUS
      <4>3. QED
        BY <4>1, <4>2
    <3>3. before = [row EXCEPT !.order = n]
      BY <3>2
    <3> HIDE DEF row, before, normal, oldest, others
    <3>4. QED
      BY <1>4, <1>10, <3>2, <3>3 DEF ModelRow
  <2>6. CreatedRow(rows, p, e, preserve) = WithRow(normal, k, before)
    BY <1>1, <1>10 DEF CreatedRow
  <2>7. CreatedClaim(cs, p, e, preserve) = InsertAt(cs, first, k)
    BY <1>1, <1>6, <1>9, <1>10 DEF CreatedClaim
  <2> HIDE DEF others, oldest, normal, row, before
  <2>8. PICK after \in Tables : after = WithRow(normal, k, before)
    BY <2>3, <2>5, WithRowType
  <2>9. /\ DOMAIN after = DOMAIN rows \cup {k} /\ after[k] = before
        /\ \A j \in DOMAIN rows : after[j] = normal[j]
    <3>1. \A j \in DOMAIN rows : j # k
      BY <1>1
    <3>2. /\ DOMAIN WithRow(normal, k, before) = DOMAIN normal \cup {k}
          /\ WithRow(normal, k, before)[k] = before
          /\ \A j \in DOMAIN normal : j # k => WithRow(normal, k, before)[j] = normal[j]
      BY <2>3, <2>5, WithRowType
    <3>3. QED
      BY <2>3, <2>8, <3>1, <3>2
  <2>10. Active(after) = Active(rows) \cup {k} /\ k \notin Active(rows)
    BY <1>1, <2>3, <2>5, <2>9 DEF Active
  <2>11. \A i, j \in Active(rows) : Precedes(rows, i, j) => Precedes(after, i, j)
    <3> SUFFICES ASSUME NEW i \in Active(rows), NEW j \in Active(rows), Precedes(rows, i, j)
                 PROVE  Precedes(after, i, j)
      OBVIOUS
    <3>1. i \in DOMAIN rows /\ j \in DOMAIN rows
      BY DEF Active
    <3>2. normal[i].order < normal[j].order
      BY <2>3, <3>1
    <3>3. QED
      BY <2>9, <3>1, <3>2 DEF Precedes
  <2>12. \A j \in Active(rows) : j[2] = k[2] => Precedes(after, k, j)
    <3> SUFFICES ASSUME NEW j \in Active(rows), j[2] = k[2] PROVE Precedes(after, k, j)
      OBVIOUS
    <3>1. j \in DOMAIN rows /\ j \in others /\ oldest \in DOMAIN rows
      BY <1>1, <1>5, <1>8, <2>1, <2>2
    <3>2. normal[oldest].order <= normal[j].order
      BY <2>2, <2>3, <2>4, <3>1
    <3>3. after[k].order < after[j].order
      BY <2>4, <2>5, <2>9, <3>1, <3>2
    <3>4. QED
      BY <3>3 DEF Precedes
  <2>13. first \in 1..Len(cs) /\ \A i \in 1..Len(cs) : cs[i][2] = k[2] => first <= i
    BY <1>1, <1>7, <1>9, <1>10
  <2>14. Tracks(InsertAt(cs, first, k), after)
    BY <2>10, <2>11, <2>12, <2>13, TracksInsert
  <2>15. QED
    BY <2>6, <2>7, <2>8, <2>14
<1>11. CASE ~(preserve /\ e.enabled /\ others # {})
  <2>1. CreatedRow(rows, p, e, preserve) = WithRow(rows, k, row)
    BY <1>1, <1>11 DEF CreatedRow
  <2>2. CreatedClaim(cs, p, e, preserve) = IF e.enabled THEN Append(cs, k) ELSE cs
    BY <1>1, <1>3, <1>6, <1>9, <1>11 DEF CreatedClaim
  <2> HIDE DEF others, oldest, normal, row, before
  <2>3. \A i \in 1..Len(cs) : cs[i] \in Keys \ {k}
    <3> SUFFICES ASSUME NEW i \in 1..Len(cs) PROVE cs[i] \in Keys \ {k}
      OBVIOUS
    <3>1. cs[i] \in DOMAIN rows /\ cs[i] \in Keys
      BY ClaimActive
    <3>2. QED
      BY <1>1, <3>1
  <2>4. Kept(cs, Keys \ {k}) = cs
    <3>1. PICK keep : keep = Keys \ {k}
      OBVIOUS
    <3>2. Kept(cs, keep) = cs
      BY <1>2, <2>3, <3>1, KeptWhole
    <3>3. QED
      BY <3>1, <3>2
  <2>5. QED
    BY <1>3, <1>4, <2>1, <2>2, <2>4, WrittenTracks
<1>12. QED
  BY <1>10, <1>11

(* The rows are written one after the other. *)
LEMMA RowsUnfold ==
  ASSUME NEW rows \in Tables, NEW p \in Providers, NEW catalog \in Seq(Entry),
         NEW preserve \in BOOLEAN, NEW n \in Nat, n = Len(catalog)
  PROVE  \E g : /\ g[0] = WithoutRows(rows, RowsOf(rows, p))
                /\ \A i \in 1..n : g[i] = CreatedRow(g[i - 1], p, catalog[i], preserve)
                /\ CreatedRows(rows, p, catalog, preserve) = g[n]
<1>1. PICK base \in Tables : base = WithoutRows(rows, RowsOf(rows, p))
  BY WithoutRowsType
<1>2. \A i \in 1..n : catalog[i] \in Entry
  OBVIOUS
<1> DEFINE F == [i \in 1..n |-> [b \in Tables |-> CreatedRow(b, p, catalog[i], preserve)]]
<1>3. F \in [1..n -> [Tables -> Tables]]
  BY <1>2, CreatedRowType
<1>4. \A i \in 1..n : \A b \in Tables : F[i][b] = CreatedRow(b, p, catalog[i], preserve)
  OBVIOUS
<1> HIDE DEF F
<1>5. PICK f : Recurs(f, n, Tables, base, F)
  BY <1>3, RecursionExists
<1>6. f \in [0..n -> Tables] /\ f[0] = base /\ \A i \in 1..n : f[i] = F[i][f[i - 1]]
  BY <1>5 DEF Recurs
<1>7. ASSUME NEW i \in 1..n PROVE f[i] = CreatedRow(f[i - 1], p, catalog[i], preserve)
  <2>1. i - 1 \in 0..n /\ f[i - 1] \in Tables
    BY <1>6
  <2>2. QED
    BY <1>4, <1>6, <2>1
<1> DEFINE Body(g) == [i \in 0..n |-> IF i = 0 THEN base
                                      ELSE CreatedRow(g[i - 1], p, catalog[i], preserve)]
           after == CHOOSE g : g = Body(g)
<1>8. f = Body(f)
  <2>1. \A i \in 0..n : f[i] = IF i = 0 THEN base ELSE CreatedRow(f[i - 1], p, catalog[i], preserve)
    BY <1>6, <1>7
  <2>2. f = [i \in 0..n |-> f[i]]
    BY <1>6
  <2>3. QED
    BY <2>1, <2>2
<1>9. after = Body(after)
  <2> HIDE DEF Body
  <2>1. QED
    BY <1>8
<1>10. CreatedRows(rows, p, catalog, preserve) = after[n]
  BY <1>1 DEF CreatedRows
<1> HIDE DEF after
<1>11. \A i \in 0..n : after[i] = IF i = 0 THEN base ELSE CreatedRow(after[i - 1], p, catalog[i], preserve)
  BY <1>9
<1>12. after[0] = base /\ \A i \in 1..n : after[i] = CreatedRow(after[i - 1], p, catalog[i], preserve)
  <2>1. 0 \in 0..n /\ \A i \in 1..n : i \in 0..n /\ i # 0
    OBVIOUS
  <2>2. QED
    BY <1>11, <2>1
<1>13. QED
  BY <1>1, <1>10, <1>12

(* And so are their claims. *)
LEMMA ClaimsUnfold ==
  ASSUME claims \in Seq(Keys), NEW p \in Providers, NEW catalog \in Seq(Entry),
         NEW preserve \in BOOLEAN, NEW n \in Nat, n = Len(catalog)
  PROVE  \E g : /\ g[0] = Disowned(p)
                /\ \A i \in 1..n : g[i] = CreatedClaim(g[i - 1], p, catalog[i], preserve)
                /\ CreatedClaims(p, catalog, preserve) = g[n]
<1>1. PICK base \in Seq(Keys) : base = Disowned(p)
  BY KeptType DEF Disowned
<1>2. \A i \in 1..n : catalog[i] \in Entry
  OBVIOUS
<1> DEFINE F == [i \in 1..n |-> [b \in Seq(Keys) |-> CreatedClaim(b, p, catalog[i], preserve)]]
<1>3. F \in [1..n -> [Seq(Keys) -> Seq(Keys)]]
  BY <1>2, CreatedClaimType
<1>4. \A i \in 1..n : \A b \in Seq(Keys) : F[i][b] = CreatedClaim(b, p, catalog[i], preserve)
  OBVIOUS
<1> HIDE DEF F
<1>5. PICK f : Recurs(f, n, Seq(Keys), base, F)
  BY <1>3, RecursionExists
<1>6. f \in [0..n -> Seq(Keys)] /\ f[0] = base /\ \A i \in 1..n : f[i] = F[i][f[i - 1]]
  BY <1>5 DEF Recurs
<1>7. ASSUME NEW i \in 1..n PROVE f[i] = CreatedClaim(f[i - 1], p, catalog[i], preserve)
  <2>1. f[i - 1] \in Seq(Keys)
    <3>1. i - 1 \in 0..n
      OBVIOUS
    <3>2. PICK Q : Q = Seq(Keys)
      OBVIOUS
    <3>3. f \in [0..n -> Q]
      BY <1>6, <3>2
    <3>4. f[i - 1] \in Q
      BY <3>1, <3>3
    <3>5. QED
      BY <3>2, <3>4
  <2>2. QED
    BY <1>4, <1>6, <2>1
<1> DEFINE Body(g) == [i \in 0..n |-> IF i = 0 THEN base
                                      ELSE CreatedClaim(g[i - 1], p, catalog[i], preserve)]
           after == CHOOSE g : g = Body(g)
<1>8. f = Body(f)
  <2>1. \A i \in 0..n : f[i] = IF i = 0 THEN base ELSE CreatedClaim(f[i - 1], p, catalog[i], preserve)
    BY <1>6, <1>7
  <2>2. f = [i \in 0..n |-> f[i]]
    BY <1>6
  <2>3. QED
    BY <2>1, <2>2
<1>9. after = Body(after)
  <2> HIDE DEF Body
  <2>1. QED
    BY <1>8
<1>10. CreatedClaims(p, catalog, preserve) = after[n]
  BY <1>1 DEF CreatedClaims
<1> HIDE DEF after
<1>11. \A i \in 0..n : after[i] = IF i = 0 THEN base ELSE CreatedClaim(after[i - 1], p, catalog[i], preserve)
  BY <1>9
<1>12. after[0] = base /\ \A i \in 1..n : after[i] = CreatedClaim(after[i - 1], p, catalog[i], preserve)
  <2>1. 0 \in 0..n /\ \A i \in 1..n : i \in 0..n /\ i # 0
    OBVIOUS
  <2>2. QED
    BY <1>11, <2>1
<1>13. QED
  BY <1>1, <1>10, <1>12

LEMMA CreatedRowsType ==
  ASSUME NEW rows \in Tables, NEW p \in Providers, NEW catalog \in Seq(Entry),
         NEW preserve \in BOOLEAN
  PROVE  CreatedRows(rows, p, catalog, preserve) \in Tables
<1>1. PICK n \in Nat : n = Len(catalog)
  OBVIOUS
<1>2. PICK g : /\ g[0] = WithoutRows(rows, RowsOf(rows, p))
               /\ \A i \in 1..n : g[i] = CreatedRow(g[i - 1], p, catalog[i], preserve)
               /\ CreatedRows(rows, p, catalog, preserve) = g[n]
  BY <1>1, RowsUnfold
<1> DEFINE T == {i \in 0..n : g[i] \in Tables}
<1>3. 0 \in T
  <2>1. PICK keys : keys = RowsOf(rows, p)
    OBVIOUS
  <2>2. WithoutRows(rows, keys) \in Tables
    BY WithoutRowsType
  <2>3. QED
    BY <1>2, <2>1, <2>2
<1>4. ASSUME NEW i \in 0..n, i \in T, i < n PROVE i + 1 \in T
  <2>1. i + 1 \in 1..n /\ i + 1 \in 0..n /\ (i + 1) - 1 = i
    BY <1>1, <1>4
  <2>2. PICK e \in Entry : e = catalog[i + 1]
    BY <1>1, <2>1
  <2>3. PICK b \in Tables : b = g[i]
    BY <1>4
  <2>4. g[i + 1] = CreatedRow(b, p, e, preserve)
    BY <1>2, <2>1, <2>2, <2>3
  <2>5. CreatedRow(b, p, e, preserve) \in Tables
    BY CreatedRowType
  <2>6. QED
    BY <2>1, <2>4, <2>5
<1>5. n \in T
  <2> HIDE DEF T
  <2>1. \A i \in 0..n : i \in T
    BY <1>3, <1>4, Induction
  <2>2. QED
    BY <2>1
<1>6. QED
  BY <1>2, <1>5

(* Rows and claims stay together, since no model is named twice. *)
LEMMA AllCreatedTrack ==
  ASSUME mrows \in Tables, Tracks(claims, mrows), NEW p \in Providers, NEW catalog \in Seq(Entry),
         NEW preserve \in BOOLEAN,
         \A i, j \in DOMAIN catalog : catalog[i].id = catalog[j].id => i = j
  PROVE  Tracks(CreatedClaims(p, catalog, preserve), CreatedRows(mrows, p, catalog, preserve))
<1>1. PICK n \in Nat : n = Len(catalog) /\ DOMAIN catalog = 1..n
  OBVIOUS
<1>2. PICK g : /\ g[0] = WithoutRows(mrows, RowsOf(mrows, p))
               /\ \A i \in 1..n : g[i] = CreatedRow(g[i - 1], p, catalog[i], preserve)
               /\ CreatedRows(mrows, p, catalog, preserve) = g[n]
  BY <1>1, RowsUnfold
<1>3. claims \in Seq(Keys)
  BY DEF Tracks
<1>4. PICK h : /\ h[0] = Disowned(p)
               /\ \A i \in 1..n : h[i] = CreatedClaim(h[i - 1], p, catalog[i], preserve)
               /\ CreatedClaims(p, catalog, preserve) = h[n]
  BY <1>1, <1>3, ClaimsUnfold
<1> DEFINE named(i) == \A k \in DOMAIN g[i] : k[1] = p => \E j \in 1..i : k[2] = catalog[j].id
           T == {i \in 0..n : g[i] \in Tables /\ Tracks(h[i], g[i]) /\ named(i)}
<1>5. 0 \in T
  <2>1. g[0] \in Tables /\ DOMAIN g[0] = DOMAIN mrows \ RowsOf(mrows, p)
    <3>1. PICK keys : keys = RowsOf(mrows, p)
      OBVIOUS
    <3>2. WithoutRows(mrows, keys) \in Tables
          /\ DOMAIN WithoutRows(mrows, keys) = DOMAIN mrows \ keys
      BY WithoutRowsType
    <3>3. QED
      BY <1>2, <3>1, <3>2
  <2>2. named(0)
    BY <2>1 DEF RowsOf
  <2>3. Tracks(h[0], g[0])
    BY <1>2, <1>4, DroppedTracks DEF Disowned
  <2>4. QED
    BY <2>1, <2>2, <2>3
<1>6. ASSUME NEW i \in 0..n, i \in T, i < n PROVE i + 1 \in T
  <2>1. i + 1 \in 1..n /\ i + 1 \in 0..n /\ (i + 1) - 1 = i
    BY <1>1, <1>6
  <2>2. PICK e \in Entry : e = catalog[i + 1]
    BY <1>1, <2>1
  <2>3. g[i + 1] = CreatedRow(g[i], p, e, preserve) /\ h[i + 1] = CreatedClaim(h[i], p, e, preserve)
    BY <1>2, <1>4, <2>1, <2>2
  <2>4. g[i] \in Tables /\ Tracks(h[i], g[i]) /\ named(i)
    BY <1>6
  <2>5. <<p, e.id>> \notin DOMAIN g[i]
    <3> SUFFICES ASSUME <<p, e.id>> \in DOMAIN g[i] PROVE FALSE
      OBVIOUS
    <3>1. PICK j \in 1..i : e.id = catalog[j].id
      BY <2>4
    <3>2. j \in 1..n /\ j # i + 1
      OBVIOUS
    <3>3. QED
      BY <1>1, <2>1, <2>2, <3>1, <3>2
  <2> HIDE DEF named
  <2>6. g[i + 1] \in Tables
    <3>1. PICK b \in Tables : b = g[i]
      BY <2>4
    <3>2. CreatedRow(b, p, e, preserve) \in Tables
      BY CreatedRowType
    <3>3. QED
      BY <2>3, <3>1, <3>2
  <2>7. Tracks(h[i + 1], g[i + 1])
    BY <2>3, <2>4, <2>5, CreatedTracks
  <2>8. named(i + 1)
    <3> SUFFICES ASSUME NEW k \in DOMAIN g[i + 1], k[1] = p
                 PROVE  \E j \in 1..(i + 1) : k[2] = catalog[j].id
      BY DEF named
    <3>1. CASE k = <<p, e.id>>
      <4>1. i + 1 \in 1..(i + 1) /\ k[2] = catalog[i + 1].id
        BY <2>2, <3>1
      <4>2. QED
        BY <4>1
    <3>2. CASE k # <<p, e.id>>
      <4>1. PICK j \in 1..i : k[2] = catalog[j].id
        <5>1. k \in DOMAIN g[i]
          BY <2>3, <3>2, CreatedRowNames
        <5>2. QED
          BY <2>4, <5>1 DEF named
      <4>2. j \in 1..(i + 1)
        OBVIOUS
      <4>3. QED
        BY <4>1, <4>2
    <3>3. QED
      BY <3>1, <3>2
  <2>9. QED
    BY <2>1, <2>6, <2>7, <2>8
<1>7. n \in T
  <2> HIDE DEF T
  <2>1. \A i \in 0..n : i \in T
    BY <1>5, <1>6, Induction
  <2>2. QED
    BY <2>1
<1>8. QED
  BY <1>2, <1>4, <1>7

-----------------------------------------------------------------------------
(* The types of configurations *)

(* An element that is replaced. *)
LEMMA Replaces ==
  ASSUME NEW S, NEW s \in Seq(S), NEW i, NEW e \in S
  PROVE  [s EXCEPT ![i] = e] \in Seq(S)
<1>1. PICK n \in Nat : n = Len(s) /\ s \in [1..n -> S]
  OBVIOUS
<1>2. PICK t : t = [s EXCEPT ![i] = e]
  OBVIOUS
<1>3. t \in [1..n -> S]
  BY <1>1, <1>2
<1>4. t = [k \in 1..n |-> t[k]] /\ \A k \in 1..n : t[k] \in S
  BY <1>3
<1>5. t \in Seq(S)
  BY <1>4, SequenceOf
<1>6. QED
  BY <1>2, <1>5

LEMMA PositionIs ==
  ASSUME NEW c \in Provider, NEW id, Has(c, id)
  PROVE  EntryOf(c, id) \in Entry
<1> DEFINE I == {i \in 1..Len(c.catalog) : c.catalog[i].id = id}
<1>1. c.catalog \in Seq(Entry)
  BY DEF Provider
<1>2. Position(c, id) = IF I # {} THEN Min(I) ELSE 0
  BY DEF Position, SelectInSeq
<1>3. I # {} /\ I \in SUBSET Nat
  BY <1>1 DEF Has
<1>4. \E i \in I : \A j \in I : i <= j
  BY <1>3, LeastNumber
<1>5. Min(I) \in I
  BY <1>4 DEF Min
<1>6. PICK i \in 1..Len(c.catalog) : i = Position(c, id)
  BY <1>2, <1>3, <1>5
<1>7. c.catalog[i] \in Entry
  BY <1>1
<1>8. QED
  BY <1>6, <1>7 DEF EntryOf

LEMMA UpstreamType ==
  ASSUME NEW c \in Provider, NEW id
  PROVE  UpstreamOf(c, id) \in Upstreams
<1>1. CASE Has(c, id)
  BY <1>1, PositionIs DEF UpstreamOf, Entry
<1>2. CASE ~Has(c, id)
  BY <1>2 DEF UpstreamOf, Upstreams
<1>3. QED
  BY <1>1, <1>2

LEMMA ConfigType ==
  ASSUME NEW c \in Provider
  PROVE  /\ \A ids : Cleared(c, ids) \in Provider
         /\ \A ids \in SUBSET Upstreams : Disabled(c, ids) \in Provider
         /\ \A id : WithoutEntry(c, id) \in Provider
         /\ \A e \in Entry : WithEntry(c, e) \in Provider
         /\ \A id : \A b \in BOOLEAN : WithEnabled(c, id, b) \in Provider
<1>1. ASSUME NEW ids PROVE Cleared(c, ids) \in Provider
  BY DEF Provider, Cleared
<1>2. ASSUME NEW ids \in SUBSET Upstreams PROVE Disabled(c, ids) \in Provider
  <2>1. c.disabled \cup (ids \ {None}) \in SUBSET Ids
    BY DEF Upstreams, Provider
  <2>2. QED
    BY <2>1 DEF Provider, Disabled
<1>3. ASSUME NEW id PROVE WithoutEntry(c, id) \in Provider
  <2>1. Kept(c.catalog, {e \in Entry : e.id # id}) \in Seq(Entry)
    BY KeptType DEF Provider
  <2>2. QED
    BY <2>1 DEF Provider, WithoutEntry
<1>4. ASSUME NEW e \in Entry PROVE WithEntry(c, e) \in Provider
  <2>1. PICK s \in Seq(Entry) : s = c.catalog
    BY DEF Provider
  <2>2. Append(s, e) \in Seq(Entry)
    OBVIOUS
  <2>3. PICK i : i = Position(c, e.id)
    OBVIOUS
  <2>4. [s EXCEPT ![i] = e] \in Seq(Entry)
    BY Replaces
  <2>5. [c EXCEPT !.catalog[i] = e] = [c EXCEPT !.catalog = [s EXCEPT ![i] = e]]
        /\ [c EXCEPT !.catalog = Append(@, e)] = [c EXCEPT !.catalog = Append(s, e)]
    BY <2>1
  <2>6. \A t \in Seq(Entry) : [c EXCEPT !.catalog = t] \in Provider
    BY DEF Provider
  <2>7. QED
    BY <2>2, <2>3, <2>4, <2>5, <2>6 DEF WithEntry
<1>5. ASSUME NEW id, NEW b \in BOOLEAN PROVE WithEnabled(c, id, b) \in Provider
  <2>1. PICK s \in Seq(Entry) : s = c.catalog
    BY DEF Provider
  <2>2. PICK i : i = Position(c, id)
    OBVIOUS
  <2>3. [s EXCEPT ![i] = [s[i] EXCEPT !.enabled = b]] \in Seq(Entry)
    <3>1. CASE i \in DOMAIN s
      <4>1. s[i] \in Entry
        BY <3>1
      <4>2. PICK e \in Entry : e = [s[i] EXCEPT !.enabled = b]
        BY <4>1 DEF Entry
      <4>3. [s EXCEPT ![i] = e] \in Seq(Entry)
        BY Replaces
      <4>4. QED
        BY <4>2, <4>3
    <3>2. CASE i \notin DOMAIN s
      <4>1. [s EXCEPT ![i] = [s[i] EXCEPT !.enabled = b]] = s
        BY <3>2
      <4>2. QED
        BY <4>1
    <3>3. QED
      BY <3>1, <3>2
  <2>4. [c EXCEPT !.catalog[i].enabled = b]
          = [c EXCEPT !.catalog = [s EXCEPT ![i] = [s[i] EXCEPT !.enabled = b]]]
    BY <2>1
  <2>5. \A t \in Seq(Entry) : [c EXCEPT !.catalog = t] \in Provider
    BY DEF Provider
  <2>6. QED
    BY <2>2, <2>3, <2>4, <2>5 DEF WithEnabled
<1>6. QED
  BY <1>1, <1>2, <1>3, <1>4, <1>5

LEMMA ReplayedModelType ==
  ASSUME NEW c \in Provider, NEW id \in Ids, NEW r \in ModelRow
  PROVE  ReplayedModel(c, id, r) \in Provider
<1> DEFINE up == IF r.json # None /\ r.json.up # None THEN r.json.up ELSE UpstreamOf(c, id)
           set == IF r.json = None THEN WithEnabled(c, id, r.enabled) ELSE WithEntry(c, r.json)
           on == IF r.json = None THEN r.enabled ELSE r.json.enabled
<1>1. r.json = None \/ r.json \in Entry
  BY DEF ModelRow
<1>2. r.removed \in BOOLEAN /\ r.enabled \in BOOLEAN /\ on \in BOOLEAN
  BY <1>1 DEF ModelRow, Entry
<1>3. up \in Upstreams /\ {id, up} \in SUBSET Upstreams
  BY <1>1, UpstreamType DEF Entry, Upstreams
<1>4. set \in Provider
  <2>1. CASE r.json = None
    <3>1. PICK b \in BOOLEAN : b = r.enabled
      BY <1>2
    <3>2. WithEnabled(c, id, b) \in Provider
      BY ConfigType
    <3>3. QED
      BY <2>1, <3>1, <3>2
  <2>2. CASE r.json \in Entry
    <3>1. WithEntry(c, r.json) \in Provider
      BY <2>2, ConfigType
    <3>2. QED
      BY <2>2, <3>1, NoneIsNo
  <2>3. QED
    BY <1>1, <2>1, <2>2
<1>5. WithoutEntry(c, id) \in Provider
  BY ConfigType
<1>6. Suppressed(c, id, up) \in Provider
  BY <1>3, <1>5, ConfigType DEF Suppressed
<1>7. Cleared(set, {id, UpstreamOf(set, id)}) \in Provider
  BY <1>4, ConfigType
<1>8. Disabled(set, {id}) \in Provider
  BY <1>3, <1>4, ConfigType
<1>9. ReplayedModel(c, id, r) = CASE r.removed -> Suppressed(c, id, up)
       [] ~r.removed /\ on -> Cleared(set, {id, UpstreamOf(set, id)})
       [] ~r.removed /\ ~on -> Disabled(set, {id})
  BY DEF ReplayedModel
<1> HIDE DEF up, set, on
<1>10. QED
  BY <1>2, <1>6, <1>7, <1>8, <1>9

LEMMA EnabledRowsAre ==
  ASSUME NEW rows \in Tables, NEW id
  PROVE  /\ EnabledRows(rows, id) \in SUBSET DOMAIN rows
         /\ \A k \in Keys : k \in EnabledRows(rows, id) <=> k \in Active(rows) /\ k[2] = id
BY TableOf DEF EnabledRows, Active

(* One after the other and all of them is in order. *)
LEMMA SortedIsInOrder ==
  ASSUME NEW rows \in Tables, NEW keys \in SUBSET DOMAIN rows, NEW s \in Seq(Keys),
         \A k \in Keys : (\E i \in 1..Len(s) : s[i] = k) <=> k \in keys,
         \A i, j \in 1..Len(s) : i < j => Precedes(rows, s[i], s[j])
  PROVE  InOrder(rows, keys) = s
<1>1. PICK n \in Nat : n = Len(s) /\ s = [i \in 1..n |-> s[i]]
  OBVIOUS
<1>2. \A i \in 1..n : s[i] \in keys
  <2>1. \A i \in 1..n : s[i] \in Keys
    BY <1>1
  <2>2. QED
    BY <1>1, <2>1
<1>3. \A k \in keys : \E i \in 1..n : s[i] = k
  <2>1. keys \subseteq Keys
    BY TableOf
  <2>2. QED
    BY <1>1, <2>1
<1>4. \A i, j \in 1..n : i < j => Precedes(rows, s[i], s[j])
  BY <1>1
<1>5. \A i, j \in 1..n : s[i] = s[j] => i = j
  <2> SUFFICES ASSUME NEW i \in 1..n, NEW j \in 1..n, s[i] = s[j], i # j PROVE FALSE
    OBVIOUS
  <2>1. Precedes(rows, s[i], s[j]) \/ Precedes(rows, s[j], s[i])
    <3>1. i < j \/ j < i
      OBVIOUS
    <3>2. QED
      BY <1>4, <3>1
  <2>2. QED
    BY <1>2, <2>1, PrecedesOrders
<1>6. ASSUME NEW m \in 0..n, NEW B, B \in SUBSET keys,
             \A l \in 1..m : s[l] \in B, \A k \in B : \E l \in 1..m : s[l] = k
      PROVE  Cardinality(B) = m
  <2> DEFINE g == [l \in 1..m |-> s[l]]
  <2>1. \A l \in 1..m : l \in 1..n
    OBVIOUS
  <2>2. g \in [1..m -> B]
    BY <1>6
  <2>3. \A i, j \in 1..m : g[i] = g[j] => i = j
    BY <1>5, <2>1
  <2>4. \A k \in B : \E l \in 1..m : g[l] = k
    BY <1>6
  <2> HIDE DEF g
  <2>5. ExistsBijection(1..m, B)
    BY <2>2, <2>3, <2>4 DEF ExistsBijection, Bijection, Injection, Surjection, IsInjective
  <2>6. IsFiniteSet(1..m) /\ Cardinality(1..m) = m
    <3>1. 1 \in Int /\ m \in Int /\ m >= 0
      OBVIOUS
    <3>2. QED
      BY <3>1, FS_Interval
  <2>7. QED
    BY <2>5, <2>6, FS_Bijection
<1>7. Cardinality(keys) = n
  <2>1. n \in 0..n /\ keys \in SUBSET keys
    OBVIOUS
  <2>2. QED
    BY <1>2, <1>3, <1>6, <2>1
<1>8. ASSUME NEW i \in 1..n PROVE Before(rows, keys, s[i]) = i - 1
  <2>1. PICK B : B = {k \in keys : Precedes(rows, k, s[i])}
    OBVIOUS
  <2>2. i - 1 \in 0..n /\ \A l \in 1..(i - 1) : l \in 1..n /\ l < i
    OBVIOUS
  <2>3. \A l \in 1..(i - 1) : s[l] \in B
    BY <1>2, <1>4, <2>1, <2>2
  <2>4. ASSUME NEW k \in B PROVE \E l \in 1..(i - 1) : s[l] = k
    <3>1. PICK l \in 1..n : s[l] = k
      BY <1>3, <2>1
    <3>2. Precedes(rows, s[l], s[i])
      BY <2>1, <3>1
    <3>3. s[l] \in DOMAIN rows /\ s[i] \in DOMAIN rows
      BY <1>2
    <3>4. l # i
      BY <3>2, <3>3, PrecedesOrders
    <3>5. ~(i < l)
      <4>1. ASSUME i < l PROVE FALSE
        <5>1. Precedes(rows, s[i], s[l])
          BY <1>4, <4>1
        <5>2. Precedes(rows, s[i], s[i]) /\ ~Precedes(rows, s[i], s[i])
          BY <3>2, <3>3, <5>1, PrecedesOrders
        <5>3. QED
          BY <5>2
      <4>2. QED
        BY <4>1
    <3>6. l \in 1..(i - 1)
      BY <3>4, <3>5
    <3>7. QED
      BY <3>1, <3>6
  <2>5. B \in SUBSET keys
    BY <2>1
  <2>6. Cardinality(B) = i - 1
    BY <1>6, <2>2, <2>3, <2>4, <2>5
  <2>7. QED
    BY <2>1, <2>6 DEF Before
<1>9. PICK t : t = InOrder(rows, keys)
  OBVIOUS
<1>10. t \in [1..n -> keys] /\ \A i \in 1..n : Before(rows, keys, t[i]) = i - 1
  BY <1>7, <1>9, InOrderLists
<1>11. ASSUME NEW i \in 1..n PROVE t[i] = s[i]
  <2>1. t[i] \in keys /\ s[i] \in keys
    BY <1>2, <1>10
  <2>2. t[i] = s[i] \/ Precedes(rows, t[i], s[i]) \/ Precedes(rows, s[i], t[i])
    BY <2>1, PrecedesOrders
  <2>3. Precedes(rows, t[i], s[i]) => Before(rows, keys, t[i]) < Before(rows, keys, s[i])
    BY <2>1, BeforeGrows
  <2>4. Precedes(rows, s[i], t[i]) => Before(rows, keys, s[i]) < Before(rows, keys, t[i])
    BY <2>1, BeforeGrows
  <2>5. QED
    BY <1>8, <1>10, <2>2, <2>3, <2>4
<1>12. t = [i \in 1..n |-> t[i]]
  BY <1>10
<1>13. QED
  BY <1>1, <1>9, <1>11, <1>12

LEMMA TracksInOrder ==
  ASSUME NEW rows \in Tables, NEW cs, Tracks(cs, rows), NEW id \in Ids
  PROVE  InOrder(rows, EnabledRows(rows, id)) = Kept(cs, {k \in Keys : k[2] = id})
<1>1. cs \in Seq(Keys)
  BY DEF Tracks
<1>2. PICK keep : keep = {k \in Keys : k[2] = id}
  OBVIOUS
<1>3. PICK s \in Seq(Keys) : s = Kept(cs, keep)
  BY <1>1, KeptType
<1>4. \A k \in Keys : (\E i \in 1..Len(s) : s[i] = k) <=> k \in EnabledRows(rows, id)
  <2> SUFFICES ASSUME NEW k \in Keys
               PROVE  (\E i \in 1..Len(s) : s[i] = k) <=> k \in EnabledRows(rows, id)
    OBVIOUS
  <2>1. (\E i \in 1..Len(s) : s[i] = k) <=> k \in keep /\ \E i \in 1..Len(cs) : cs[i] = k
    BY <1>1, <1>3, KeptElements
  <2>2. QED
    BY <1>2, <2>1, EnabledRowsAre DEF Tracks
<1> DEFINE R == {w \in Keys \X Keys : w[1][2] = w[2][2] => Precedes(rows, w[1], w[2])}
<1>5. \A i, j \in 1..Len(cs) : i < j => <<cs[i], cs[j]>> \in R
  <2>1. \A i \in 1..Len(cs) : cs[i] \in Keys
    BY <1>1
  <2>2. QED
    BY <2>1 DEF Tracks, InClaimOrder
<1>6. \A j \in Keys, k \in Keys : <<j, k>> \in R /\ j[2] = k[2] => Precedes(rows, j, k)
  OBVIOUS
<1> HIDE DEF R
<1>7. \A i, j \in 1..Len(s) : i < j => <<s[i], s[j]>> \in R
  BY <1>1, <1>3, <1>5, KeptOrdered
<1>8. \A i \in 1..Len(s) : s[i] \in Keys /\ s[i][2] = id
  <2> SUFFICES ASSUME NEW i \in 1..Len(s) PROVE s[i] \in Keys /\ s[i][2] = id
    OBVIOUS
  <2>1. s \in Seq(Keys \cap keep)
    BY <1>1, <1>3, KeptType
  <2>2. s[i] \in Keys \cap keep
    BY <2>1
  <2>3. QED
    BY <1>2, <2>2
<1>9. \A i, j \in 1..Len(s) : i < j => Precedes(rows, s[i], s[j])
  BY <1>6, <1>7, <1>8
<1>10. EnabledRows(rows, id) \in SUBSET DOMAIN rows
  BY EnabledRowsAre
<1>11. QED
  BY <1>2, <1>3, <1>4, <1>9, <1>10, SortedIsInOrder

-----------------------------------------------------------------------------
(* The inductive invariant *)

TypeInv ==
  /\ toml \in [Providers -> Provider \cup {None}]
  /\ prows \in [Providers -> ProviderRow \cup {None}]
  /\ mrows \in Tables
  /\ live \in [Providers -> Provider \cup {None}]
  /\ remembered \subseteq Providers
  /\ committed = None \/ committed \in [p: Providers, to: Provider \cup {None}]
ClaimInv == Tracks(claims, mrows)

LEMMA ReplayedProviderType ==
  ASSUME TypeInv, NEW p \in Providers
  PROVE  ReplayedProvider(p) \in Provider \cup {None}
<1>1. PICK r \in ProviderRow \cup {None}, base \in Provider \cup {None} :
        r = prows[p] /\ base = toml[p]
  BY DEF TypeInv
<1>2. CASE r = None
  BY <1>1, <1>2 DEF ReplayedProvider
<1>3. CASE r # None
  <2>1. /\ r.enabled \in BOOLEAN /\ r.removed \in BOOLEAN /\ r.managed \in BOOLEAN
        /\ r.json \in Provider \cup {None}
    BY <1>1, <1>3 DEF ProviderRow
  <2>2. r.json # None => [r.json EXCEPT !.enabled = r.enabled] \in Provider
    BY <2>1 DEF Provider
  <2>3. r.json # None /\ base # None =>
          [r.json EXCEPT !.enabled = r.enabled, !.key = base.key,
                         !.catalog = base.catalog, !.disabled = base.disabled] \in Provider
    BY <1>1, <2>1 DEF Provider
  <2>4. base # None => [base EXCEPT !.enabled = r.enabled] \in Provider
    BY <1>1, <2>1 DEF Provider
  <2>5. QED
    BY <1>1, <1>3, <2>2, <2>3, <2>4 DEF ReplayedProvider
<1>4. QED
  BY <1>2, <1>3

\* The settings that an edit of the provider changes.
Alike(c, d) == c.enabled = d.enabled /\ c.dest = d.dest /\ c.key = d.key

LEMMA NoneIsNone ==
  /\ \A c \in Provider : c # None
  /\ \A r \in ProviderRow : r # None
  /\ \A m \in [p: Providers, to: Provider \cup {None}] : m # None
BY ConstantsAssumption

(* Edits of the models leave the settings of the provider alone. *)
LEMMA SettingsKept ==
  ASSUME NEW c \in Provider
  PROVE  /\ \A ids : Alike(Cleared(c, ids), c)
         /\ \A ids : Alike(Disabled(c, ids), c)
         /\ \A id : Alike(WithoutEntry(c, id), c)
         /\ \A e : Alike(WithEntry(c, e), c)
         /\ \A id, b : Alike(WithEnabled(c, id, b), c)
<1>1. ASSUME NEW ids PROVE Alike(Cleared(c, ids), c)
  BY DEF Provider, Cleared, Alike
<1>2. ASSUME NEW ids PROVE Alike(Disabled(c, ids), c)
  BY DEF Provider, Disabled, Alike
<1>3. ASSUME NEW id PROVE Alike(WithoutEntry(c, id), c)
  BY DEF Provider, WithoutEntry, Alike
<1>4. ASSUME NEW e PROVE Alike(WithEntry(c, e), c)
  BY DEF Provider, WithEntry, Alike
<1>5. ASSUME NEW id, NEW b PROVE Alike(WithEnabled(c, id, b), c)
  BY DEF Provider, WithEnabled, Alike
<1>6. QED
  BY <1>1, <1>2, <1>3, <1>4, <1>5

LEMMA AlikeTwice ==
  ASSUME NEW a, NEW b, NEW c, Alike(a, b), Alike(b, c)
  PROVE  Alike(a, c)
BY DEF Alike

LEMMA ReplayedModelSettings ==
  ASSUME NEW c \in Provider, NEW id \in Ids, NEW r \in ModelRow
  PROVE  Alike(ReplayedModel(c, id, r), c)
<1> DEFINE up == IF r.json # None /\ r.json.up # None THEN r.json.up ELSE UpstreamOf(c, id)
           set == IF r.json = None THEN WithEnabled(c, id, r.enabled) ELSE WithEntry(c, r.json)
           on == IF r.json = None THEN r.enabled ELSE r.json.enabled
<1>1. r.json = None \/ r.json \in Entry
  BY DEF ModelRow
<1>2. r.removed \in BOOLEAN /\ r.enabled \in BOOLEAN /\ on \in BOOLEAN
  BY <1>1 DEF ModelRow, Entry
<1>3. set \in Provider /\ Alike(set, c)
  <2>1. CASE r.json = None
    <3>1. PICK b \in BOOLEAN : b = r.enabled
      BY <1>2
    <3>2. WithEnabled(c, id, b) \in Provider /\ Alike(WithEnabled(c, id, b), c)
      BY ConfigType, SettingsKept
    <3>3. QED
      BY <2>1, <3>1, <3>2
  <2>2. CASE r.json \in Entry
    <3>1. WithEntry(c, r.json) \in Provider /\ Alike(WithEntry(c, r.json), c)
      BY <2>2, ConfigType, SettingsKept
    <3>2. QED
      BY <2>2, <3>1, NoneIsNo
  <2>3. QED
    BY <1>1, <2>1, <2>2
<1>4. Alike(Suppressed(c, id, up), c)
  <2>1. PICK d \in Provider : d = WithoutEntry(c, id)
    BY ConfigType
  <2>2. Alike(d, c) /\ Alike(Disabled(d, {id, up}), d)
    BY <2>1, SettingsKept
  <2>3. QED
    BY <2>1, <2>2, AlikeTwice DEF Suppressed
<1>5. PICK d \in Provider : d = set
  BY <1>3
<1>6. \A ids : Alike(Cleared(d, ids), c) /\ Alike(Disabled(d, ids), c)
  <2>1. \A ids : Alike(Cleared(d, ids), d) /\ Alike(Disabled(d, ids), d)
    BY SettingsKept
  <2>2. QED
    BY <1>3, <1>5, <2>1, AlikeTwice
<1>7. ReplayedModel(c, id, r) = CASE r.removed -> Suppressed(c, id, up)
       [] ~r.removed /\ on -> Cleared(set, {id, UpstreamOf(set, id)})
       [] ~r.removed /\ ~on -> Disabled(set, {id})
  BY DEF ReplayedModel
<1> HIDE DEF up, set, on
<1>8. QED
  BY <1>2, <1>4, <1>5, <1>6, <1>7

(* The rows of the models leave the settings of the provider alone. *)
LEMMA ReplayedIs ==
  ASSUME TypeInv, NEW p \in Providers
  PROVE  \/ ReplayedProvider(p) = None /\ Replayed(p) = None
         \/ /\ ReplayedProvider(p) \in Provider /\ Replayed(p) \in Provider
            /\ Alike(Replayed(p), ReplayedProvider(p))
<1>1. PICK base : base = ReplayedProvider(p)
  OBVIOUS
<1>2. CASE base = None
  BY <1>1, <1>2 DEF Replayed
<1>3. CASE base # None
  <2>1. base \in Provider
    BY <1>1, <1>3, ReplayedProviderType
  <2>2. PICK rows \in SUBSET DOMAIN mrows : rows = RowsOf(mrows, p)
    BY DEF RowsOf
  <2>3. PICK keys : keys = InOrder(mrows, rows)
    OBVIOUS
  <2>4. PICK n \in Nat : n = Cardinality(rows) /\ keys \in [1..n -> rows]
    BY <2>3, InOrderLists DEF TypeInv
  <2>5. Len(keys) = n
    BY <2>4
  <2>6. \A i \in 1..n : keys[i][2] \in Ids /\ mrows[keys[i]] \in ModelRow
    <3> SUFFICES ASSUME NEW i \in 1..n PROVE keys[i][2] \in Ids /\ mrows[keys[i]] \in ModelRow
      OBVIOUS
    <3>1. keys[i] \in DOMAIN mrows
      BY <2>4
    <3>2. keys[i] \in Keys /\ mrows[keys[i]] \in ModelRow
      BY <3>1, TableOf DEF TypeInv
    <3>3. QED
      BY <3>2 DEF Keys
  <2> DEFINE F == [i \in 1..n |-> [c \in Provider |-> ReplayedModel(c, keys[i][2], mrows[keys[i]])]]
  <2>7. F \in [1..n -> [Provider -> Provider]]
    BY <2>6, ReplayedModelType
  <2>8. \A i \in 1..n : \A c \in Provider : F[i][c] = ReplayedModel(c, keys[i][2], mrows[keys[i]])
    OBVIOUS
  <2> HIDE DEF F
  <2>9. PICK f : Recurs(f, n, Provider, base, F)
    BY <2>1, <2>7, RecursionExists
  <2>10. f \in [0..n -> Provider] /\ f[0] = base /\ \A i \in 1..n : f[i] = F[i][f[i - 1]]
    BY <2>9 DEF Recurs
  <2>11. ASSUME NEW i \in 1..n
         PROVE  f[i] = ReplayedModel(f[i - 1], keys[i][2], mrows[keys[i]])
    <3>1. i - 1 \in 0..n /\ f[i - 1] \in Provider
      BY <2>10
    <3>2. QED
      BY <2>8, <2>10, <3>1
  <2> DEFINE Body(g) == [i \in 0..n |-> IF i = 0 THEN base
                           ELSE ReplayedModel(g[i - 1], keys[i][2], mrows[keys[i]])]
             after == CHOOSE g : g = Body(g)
  <2>12. f = Body(f)
    <3>1. \A i \in 0..n : f[i] = IF i = 0 THEN base
                                 ELSE ReplayedModel(f[i - 1], keys[i][2], mrows[keys[i]])
      BY <2>10, <2>11
    <3>2. f = [i \in 0..n |-> f[i]]
      BY <2>10
    <3>3. QED
      BY <3>1, <3>2
  <2>13. after = Body(after)
    <3> HIDE DEF Body
    <3>1. QED
      BY <2>12
  <2>14. Replayed(p) = after[n]
    BY <1>1, <1>3, <2>2, <2>3, <2>5 DEF Replayed
  <2> HIDE DEF after
  <2>15. \A i \in 0..n : after[i] = IF i = 0 THEN base
                                    ELSE ReplayedModel(after[i - 1], keys[i][2], mrows[keys[i]])
    BY <2>13
  <2> DEFINE T == {i \in 0..n : after[i] \in Provider /\ Alike(after[i], base)}
  <2>16. 0 \in T
    <3>1. Alike(base, base)
      BY DEF Alike
    <3>2. QED
      BY <2>1, <2>15, <3>1
  <2>17. ASSUME NEW i \in 0..n, i \in T, i < n PROVE i + 1 \in T
    <3>1. i + 1 \in 0..n /\ i + 1 \in 1..n /\ (i + 1) - 1 = i /\ i + 1 # 0
      BY <2>17
    <3>2. after[i + 1] = ReplayedModel(after[i], keys[i + 1][2], mrows[keys[i + 1]])
      BY <2>15, <3>1
    <3>3. PICK c \in Provider : c = after[i] /\ Alike(c, base)
      BY <2>17
    <3>4. PICK d : d = ReplayedModel(c, keys[i + 1][2], mrows[keys[i + 1]])
      OBVIOUS
    <3>5. d \in Provider /\ Alike(d, c)
      BY <2>6, <3>1, <3>4, ReplayedModelType, ReplayedModelSettings
    <3>6. Alike(d, base)
      BY <3>3, <3>5, AlikeTwice
    <3>7. QED
      BY <3>1, <3>2, <3>3, <3>4, <3>5, <3>6
  <2>18. n \in T
    <3> HIDE DEF T
    <3>1. \A i \in 0..n : i \in T
      BY <2>16, <2>17, Induction
    <3>2. QED
      BY <3>1
  <2>19. QED
    BY <1>1, <2>1, <2>14, <2>18
<1>4. QED
  BY <1>2, <1>3

LEMMA ReplayedType ==
  ASSUME TypeInv, NEW p \in Providers
  PROVE  Replayed(p) \in Provider \cup {None}
BY ReplayedIs

LEMMA RowOfType ==
  ASSUME NEW c \in Provider, NEW managed \in BOOLEAN
  PROVE  ProviderRowOf(c, managed) \in ProviderRow
<1>1. Snapshot(c, managed) \in Provider
  BY DEF Snapshot, Provider
<1>2. c.enabled \in BOOLEAN
  BY DEF Provider
<1>3. QED
  BY <1>1, <1>2 DEF ProviderRowOf, ProviderRow

LEMMA ManagedType ==
  ASSUME TypeInv, NEW p \in Providers
  PROVE  Managed(p) \in BOOLEAN
<1>1. CASE prows[p] # None
  <2>1. prows[p] \in ProviderRow
    BY <1>1 DEF TypeInv
  <2>2. QED
    BY <1>1, <2>1 DEF Managed, ProviderRow
<1>2. CASE prows[p] = None
  BY <1>2 DEF Managed
<1>3. QED
  BY <1>1, <1>2

LEMMA LiveType ==
  ASSUME TypeInv, NEW p \in Providers, live[p] # None
  PROVE  live[p] \in Provider
BY DEF TypeInv

(* What a mutation writes is well formed when its rows are. *)
LEMMA CommitTypes ==
  ASSUME TypeInv, NEW p \in Providers, NEW to \in Provider \cup {None}, Commit(p, to),
         prows' \in [Providers -> ProviderRow \cup {None}], mrows' \in Tables,
         remembered' \subseteq Providers
  PROVE  TypeInv'
<1>1. toml' = toml /\ live' = live /\ committed' = [p |-> p, to |-> to]
  BY DEF Commit
<1>2. QED
  BY <1>1 DEF TypeInv

LEMMA CreateKeeps ==
  ASSUME TypeInv, ClaimInv, NEW p \in Providers, NEW c \in NewProviders,
         NEW preserve \in BOOLEAN, CreateProvider(p, c, preserve)
  PROVE  TypeInv' /\ ClaimInv'
<1>1. /\ Commit(p, c)
      /\ prows' = [prows EXCEPT ![p] = ProviderRowOf(c, TRUE)]
      /\ mrows' = CreatedRows(mrows, p, c.catalog, preserve)
      /\ remembered' = remembered \cup {p}
      /\ claims' = CreatedClaims(p, c.catalog, preserve)
  BY DEF CreateProvider
<1>2. c \in Provider /\ \A i, j \in DOMAIN c.catalog : c.catalog[i].id = c.catalog[j].id => i = j
  BY ConstantsAssumption
<1>3. PICK catalog \in Seq(Entry) : catalog = c.catalog
  BY <1>2 DEF Provider
<1>4. \A i, j \in DOMAIN catalog : catalog[i].id = catalog[j].id => i = j
  BY <1>2, <1>3
<1>5. mrows \in Tables /\ Tracks(claims, mrows)
  BY DEF TypeInv, ClaimInv
<1>6. mrows' \in Tables
  <2>1. CreatedRows(mrows, p, catalog, preserve) \in Tables
    BY <1>5, CreatedRowsType
  <2>2. QED
    BY <1>1, <1>3, <2>1
<1>7. prows' \in [Providers -> ProviderRow \cup {None}]
  <2>1. ProviderRowOf(c, TRUE) \in ProviderRow
    BY <1>2, RowOfType
  <2>2. QED
    BY <1>1, <2>1 DEF TypeInv
<1>8. remembered' \subseteq Providers
  BY <1>1 DEF TypeInv
<1>9. TypeInv'
  BY <1>1, <1>2, <1>6, <1>7, <1>8, CommitTypes
<1>10. Tracks(CreatedClaims(p, catalog, preserve), CreatedRows(mrows, p, catalog, preserve))
  BY <1>4, <1>5, AllCreatedTrack
<1>11. ClaimInv'
  BY <1>1, <1>3, <1>10 DEF ClaimInv
<1>12. QED
  BY <1>9, <1>11

LEMMA UpdateKeeps ==
  ASSUME TypeInv, ClaimInv, NEW p \in Providers, NEW edit \in Edits, UpdateProvider(p, edit)
  PROVE  TypeInv' /\ ClaimInv'
<1>1. PICK to : to = Edited(live[p], edit)
  OBVIOUS
<1>2. /\ live[p] # None /\ Commit(p, to)
      /\ prows' = [prows EXCEPT ![p] = ProviderRowOf(to, Managed(p))]
      /\ remembered' = IF Managed(p) THEN remembered \cup {p} ELSE remembered \ {p}
      /\ mrows' = mrows /\ claims' = claims
  BY <1>1 DEF UpdateProvider
<1>3. to \in Provider
  <2>1. edit \in [enabled: BOOLEAN, dest: Versions, key: Versions \cup {None}]
    BY ConstantsAssumption
  <2>2. PICK c \in Provider : c = live[p]
    BY <1>2, LiveType
  <2>3. QED
    BY <1>1, <2>1, <2>2 DEF Edited, Provider
<1>4. prows' \in [Providers -> ProviderRow \cup {None}]
  <2>1. ProviderRowOf(to, Managed(p)) \in ProviderRow
    BY <1>3, ManagedType, RowOfType
  <2>2. QED
    BY <1>2, <2>1 DEF TypeInv
<1>5. remembered' \subseteq Providers
  BY <1>2 DEF TypeInv
<1>6. mrows' \in Tables
  BY <1>2 DEF TypeInv
<1>7. TypeInv'
  BY <1>2, <1>3, <1>4, <1>5, <1>6, CommitTypes
<1>8. QED
  BY <1>2, <1>7 DEF ClaimInv

LEMMA DeleteProviderKeeps ==
  ASSUME TypeInv, ClaimInv, NEW p \in Providers, DeleteProvider(p)
  PROVE  TypeInv' /\ ClaimInv'
<1>1. Commit(p, None) /\ remembered' = remembered \ {p}
  BY DEF DeleteProvider
<1>2. remembered' \subseteq Providers
  BY <1>1 DEF TypeInv
<1>3. mrows \in Tables /\ Tracks(claims, mrows)
  BY DEF TypeInv, ClaimInv
<1>4. CASE Managed(p)
  <2>1. /\ prows' = [prows EXCEPT ![p] = None]
        /\ mrows' = WithoutRows(mrows, RowsOf(mrows, p))
        /\ claims' = Disowned(p)
    BY <1>4 DEF DeleteProvider
  <2>2. prows' \in [Providers -> ProviderRow \cup {None}]
    BY <2>1 DEF TypeInv
  <2>3. mrows' \in Tables
    <3>1. PICK keys : keys = RowsOf(mrows, p)
      OBVIOUS
    <3>2. WithoutRows(mrows, keys) \in Tables
      BY <1>3, WithoutRowsType
    <3>3. QED
      BY <2>1, <3>1, <3>2
  <2>4. TypeInv'
    BY <1>1, <1>2, <2>2, <2>3, CommitTypes
  <2>5. Tracks(Kept(claims, {k \in Keys : k[1] # p}), WithoutRows(mrows, RowsOf(mrows, p)))
    BY <1>3, DroppedTracks
  <2>6. QED
    BY <2>1, <2>4, <2>5 DEF ClaimInv, Disowned
<1>5. CASE ~Managed(p)
  <2> DEFINE row == [enabled |-> FALSE, removed |-> TRUE, managed |-> FALSE,
                     json |-> IF prows[p] = None THEN None ELSE prows[p].json]
  <2>1. prows' = [prows EXCEPT ![p] = row] /\ mrows' = mrows /\ claims' = claims
    BY <1>5 DEF DeleteProvider
  <2>2. row \in ProviderRow
    <3>1. prows[p] = None \/ prows[p] \in ProviderRow
      BY DEF TypeInv
    <3>2. QED
      BY <3>1 DEF ProviderRow
  <2> HIDE DEF row
  <2>3. prows' \in [Providers -> ProviderRow \cup {None}]
    BY <2>1, <2>2 DEF TypeInv
  <2>4. TypeInv'
    BY <1>1, <1>2, <1>3, <2>1, <2>3, CommitTypes
  <2>5. QED
    BY <2>1, <2>4 DEF ClaimInv
<1>6. QED
  BY <1>4, <1>5

LEMMA SetProviderKeeps ==
  ASSUME TypeInv, ClaimInv, NEW p \in Providers, NEW b \in BOOLEAN, SetProviderEnabled(p, b)
  PROVE  TypeInv' /\ ClaimInv'
<1>1. PICK to : to = [live[p] EXCEPT !.enabled = b]
  OBVIOUS
<1>2. live[p] # None /\ Commit(p, to) /\ mrows' = mrows /\ remembered' = remembered /\ claims' = claims
  BY <1>1 DEF SetProviderEnabled
<1>3. to \in Provider
  BY <1>1, <1>2, LiveType DEF Provider
<1>4. \E row \in ProviderRow : prows' = [prows EXCEPT ![p] = row]
  <2>1. CASE prows[p] # None
    <3>1. prows[p] \in ProviderRow
      BY <2>1 DEF TypeInv
    <3>2. [prows[p] EXCEPT !.enabled = b, !.removed = FALSE] \in ProviderRow
      BY <3>1 DEF ProviderRow
    <3>3. prows' = [prows EXCEPT ![p] = [prows[p] EXCEPT !.enabled = b, !.removed = FALSE]]
      BY <2>1 DEF SetProviderEnabled
    <3>4. QED
      BY <3>2, <3>3
  <2>2. CASE prows[p] = None /\ Managed(p)
    <3>1. prows' = [prows EXCEPT ![p] = ProviderRowOf(to, TRUE)]
      BY <1>1, <2>2 DEF SetProviderEnabled
    <3>2. QED
      BY <1>3, <3>1, RowOfType
  <2>3. CASE prows[p] = None /\ ~Managed(p)
    <3> DEFINE row == [enabled |-> b, removed |-> FALSE, managed |-> FALSE, json |-> None]
    <3>1. prows' = [prows EXCEPT ![p] = row]
      BY <2>3 DEF SetProviderEnabled
    <3>2. row \in ProviderRow
      BY DEF ProviderRow
    <3> HIDE DEF row
    <3>3. QED
      BY <3>1, <3>2
  <2>4. QED
    BY <2>1, <2>2, <2>3
<1>5. prows' \in [Providers -> ProviderRow \cup {None}]
  BY <1>4 DEF TypeInv
<1>6. mrows' \in Tables /\ remembered' \subseteq Providers
  BY <1>2 DEF TypeInv
<1>7. TypeInv'
  BY <1>2, <1>3, <1>5, <1>6, CommitTypes
<1>8. QED
  BY <1>2, <1>7 DEF ClaimInv

(* What the mutations of a model make of the configuration. *)
LEMMA EditsCompose ==
  ASSUME NEW c \in Provider, NEW d \in Provider, Alike(d, c)
  PROVE  /\ \A ids : Cleared(d, ids) \in Provider /\ Alike(Cleared(d, ids), c)
         /\ \A ids \in SUBSET Upstreams :
              Disabled(d, ids) \in Provider /\ Alike(Disabled(d, ids), c)
         /\ \A id : WithoutEntry(d, id) \in Provider /\ Alike(WithoutEntry(d, id), c)
         /\ \A e \in Entry : WithEntry(d, e) \in Provider /\ Alike(WithEntry(d, e), c)
         /\ \A id : \A b \in BOOLEAN :
              WithEnabled(d, id, b) \in Provider /\ Alike(WithEnabled(d, id, b), c)
<1>1. /\ \A ids : Alike(Cleared(d, ids), d)
      /\ \A ids : Alike(Disabled(d, ids), d)
      /\ \A id : Alike(WithoutEntry(d, id), d)
      /\ \A e : Alike(WithEntry(d, e), d)
      /\ \A id, b : Alike(WithEnabled(d, id, b), d)
  BY SettingsKept
<1>2. \A x : Alike(x, d) => Alike(x, c)
  BY AlikeTwice
<1>3. QED
  BY <1>1, <1>2, ConfigType

LEMMA AlikeItself == \A c : Alike(c, c)
BY DEF Alike

LEMMA PutEdits ==
  ASSUME TypeInv, NEW p \in Providers, NEW e \in Entries, PutModel(p, e)
  PROVE  Upserted(live[p], e) \in Provider /\ Alike(Upserted(live[p], e), live[p])
<1>1. e \in Entry
  BY ConstantsAssumption
<1>2. PICK c \in Provider : c = live[p]
  BY LiveType DEF PutModel
<1>3. Cleared(c, {e.id, e.up}) \in Provider /\ Alike(Cleared(c, {e.id, e.up}), c)
  BY AlikeItself, EditsCompose
<1>4. PICK d \in Provider : d = (IF e.enabled THEN Cleared(c, {e.id, e.up}) ELSE c) /\ Alike(d, c)
  BY <1>3, AlikeItself
<1>5. WithEntry(d, e) \in Provider /\ Alike(WithEntry(d, e), c)
  BY <1>1, <1>4, EditsCompose
<1>6. QED
  BY <1>2, <1>4, <1>5 DEF Upserted

LEMMA SetModelEdits ==
  ASSUME TypeInv, NEW p \in Providers, NEW id \in Targets, NEW b \in BOOLEAN,
         SetModelEnabled(p, id, b)
  PROVE  \E to \in Provider : Alike(to, live[p]) /\ Commit(p, to)
<1>1. id \in Ids /\ mrows \in Tables
  BY ConstantsAssumption DEF TypeInv
<1>2. PICK k \in Keys : k = <<p, id>>
  BY <1>1 DEF Keys
<1> DEFINE c == live[p]
           rows == ToggledRow(mrows, k, b)
           restored == rows[k].json
           up == IF restored # None /\ restored.up # None THEN restored.up ELSE UpstreamOf(c, id)
           back == IF restored = None THEN c ELSE WithEntry(c, restored)
           to == CASE Has(c, id) /\ b -> Cleared(WithEnabled(c, id, b), {id, up})
                   [] Has(c, id) /\ ~b -> Disabled(WithEnabled(c, id, b), {id, up})
                   [] ~Has(c, id) /\ b -> Cleared(back, {id, up})
                   [] ~Has(c, id) /\ ~b -> Disabled(c, {id})
<1>3. c # None /\ Commit(p, to)
  BY <1>2 DEF SetModelEnabled
<1>4. rows \in Tables /\ k \in DOMAIN rows
  BY <1>1, ToggledTracks
<1>5. c \in Provider /\ Alike(c, c)
  BY <1>3, LiveType, AlikeItself
<1>6. restored = None \/ restored \in Entry
  <2> HIDE DEF rows
  <2>1. rows[k] \in ModelRow
    BY <1>4, TableOf
  <2>2. QED
    BY <2>1 DEF ModelRow
<1> HIDE DEF c, rows
<1>7. {id, up} \in SUBSET Upstreams /\ {id} \in SUBSET Upstreams
  <2> HIDE DEF restored
  <2>1. UpstreamOf(c, id) \in Upstreams
    BY <1>5, UpstreamType
  <2>2. restored # None => restored.up \in Upstreams
    BY <1>6 DEF Entry
  <2>3. QED
    BY <1>1, <2>1, <2>2 DEF Upstreams
<1>8. back \in Provider /\ Alike(back, c)
  <2> HIDE DEF restored
  <2>1. CASE restored = None
    BY <1>5, <2>1
  <2>2. CASE restored # None
    <3>1. WithEntry(c, restored) \in Provider /\ Alike(WithEntry(c, restored), c)
      BY <1>5, <1>6, <2>2, EditsCompose
    <3>2. QED
      BY <2>2, <3>1
  <2>3. QED
    BY <2>1, <2>2
<1> HIDE DEF restored, up, back
<1>9. WithEnabled(c, id, b) \in Provider /\ Alike(WithEnabled(c, id, b), c)
  BY <1>5, EditsCompose
<1>10. /\ Cleared(WithEnabled(c, id, b), {id, up}) \in Provider
       /\ Alike(Cleared(WithEnabled(c, id, b), {id, up}), c)
       /\ Disabled(WithEnabled(c, id, b), {id, up}) \in Provider
       /\ Alike(Disabled(WithEnabled(c, id, b), {id, up}), c)
  BY <1>5, <1>7, <1>9, EditsCompose
<1>11. /\ Cleared(back, {id, up}) \in Provider /\ Alike(Cleared(back, {id, up}), c)
       /\ Disabled(c, {id}) \in Provider /\ Alike(Disabled(c, {id}), c)
  BY <1>5, <1>7, <1>8, EditsCompose
<1>12. to \in Provider /\ Alike(to, c)
  <2>1. Has(c, id) \in BOOLEAN
    BY DEF Has
  <2>2. QED
    BY <1>10, <1>11, <2>1
<1> HIDE DEF to
<1>13. QED
  BY <1>3, <1>12 DEF c

LEMMA DeleteModelEdits ==
  ASSUME TypeInv, NEW p \in Providers, NEW id \in Targets, DeleteModel(p, id)
  PROVE  \E to \in Provider :
           /\ Alike(to, live[p]) /\ Commit(p, to)
           /\ prows' = IF Managed(p) THEN [prows EXCEPT ![p] = ProviderRowOf(to, TRUE)] ELSE prows
<1>1. id \in Ids /\ mrows \in Tables
  BY ConstantsAssumption DEF TypeInv
<1>2. PICK k \in Keys : k = <<p, id>>
  BY <1>1 DEF Keys
<1> DEFINE c == live[p]
           up == UpstreamOf(c, id)
           hard == Managed(p) \/ (k \in DOMAIN mrows /\ mrows[k].uiCreated)
           to == CASE Has(c, id) /\ hard -> Removed(c, id, up)
                   [] Has(c, id) /\ ~hard -> Suppressed(c, id, up)
                   [] ~Has(c, id) -> Disabled(c, {id})
<1>3. /\ c # None /\ Commit(p, to)
      /\ prows' = IF Managed(p) THEN [prows EXCEPT ![p] = ProviderRowOf(to, TRUE)] ELSE prows
  BY <1>2 DEF DeleteModel
<1>4. c \in Provider /\ Alike(c, c)
  BY <1>3, LiveType, AlikeItself
<1>5. hard \in BOOLEAN /\ Has(c, id) \in BOOLEAN
  <2>1. k \in DOMAIN mrows => mrows[k].uiCreated \in BOOLEAN
    BY <1>1, TableOf DEF ModelRow
  <2>2. QED
    BY <2>1, ManagedType DEF Has
<1> HIDE DEF c, hard
<1>6. {id, up} \in SUBSET Upstreams /\ {id} \in SUBSET Upstreams
  BY <1>1, <1>4, UpstreamType DEF Upstreams
<1> HIDE DEF up
<1>7. to \in Provider /\ Alike(to, c)
  <2>1. PICK d \in Provider : d = WithoutEntry(c, id) /\ Alike(d, c)
    BY <1>4, EditsCompose
  <2>2. Removed(c, id, up) \in Provider /\ Alike(Removed(c, id, up), c)
    BY <1>4, <2>1, EditsCompose DEF Removed
  <2>3. Suppressed(c, id, up) \in Provider /\ Alike(Suppressed(c, id, up), c)
    BY <1>4, <1>6, <2>1, EditsCompose DEF Suppressed
  <2>4. Disabled(c, {id}) \in Provider /\ Alike(Disabled(c, {id}), c)
    BY <1>4, <1>6, EditsCompose
  <2>5. QED
    BY <1>5, <2>2, <2>3, <2>4
<1> HIDE DEF to
<1>8. QED
  BY <1>3, <1>7 DEF c

LEMMA PutKeeps ==
  ASSUME TypeInv, ClaimInv, NEW p \in Providers, NEW e \in Entries, PutModel(p, e)
  PROVE  TypeInv' /\ ClaimInv'
<1>1. e \in Entry /\ mrows \in Tables /\ Tracks(claims, mrows)
  BY ConstantsAssumption DEF TypeInv, ClaimInv
<1>2. PICK k \in Keys : k = <<p, e.id>>
  BY <1>1 DEF Keys, Entry
<1>3. PICK created \in BOOLEAN : created = ~Has(live[p], e.id)
  OBVIOUS
<1>4. /\ live[p] # None /\ Commit(p, Upserted(live[p], e))
      /\ mrows' = UpsertedRow(mrows, k, e, created)
      /\ claims' = Claimed(k, e.enabled)
      /\ prows' = prows /\ remembered' = remembered
  BY <1>2, <1>3 DEF PutModel
<1>5. Upserted(live[p], e) \in Provider
  BY PutEdits
<1>6. /\ UpsertedRow(mrows, k, e, created) \in Tables
      /\ Tracks(IF e.enabled THEN Append(Kept(claims, Keys \ {k}), k) ELSE Kept(claims, Keys \ {k}),
                UpsertedRow(mrows, k, e, created))
  BY <1>1, UpsertedTracks
<1>7. prows' \in [Providers -> ProviderRow \cup {None}] /\ remembered' \subseteq Providers
  BY <1>4 DEF TypeInv
<1>8. TypeInv'
  BY <1>4, <1>5, <1>6, <1>7, CommitTypes
<1>9. QED
  BY <1>4, <1>6, <1>8 DEF ClaimInv, Claimed, Unclaimed

LEMMA SetModelKeeps ==
  ASSUME TypeInv, ClaimInv, NEW p \in Providers, NEW id \in Targets, NEW b \in BOOLEAN,
         SetModelEnabled(p, id, b)
  PROVE  TypeInv' /\ ClaimInv'
<1>1. id \in Ids /\ mrows \in Tables /\ Tracks(claims, mrows)
  BY ConstantsAssumption DEF TypeInv, ClaimInv
<1>2. PICK k \in Keys : k = <<p, id>>
  BY <1>1 DEF Keys
<1>3. PICK to \in Provider : Commit(p, to)
  BY SetModelEdits
<1>4. /\ mrows' = ToggledRow(mrows, k, b) /\ claims' = Claimed(k, b)
      /\ prows' = prows /\ remembered' = remembered
  BY <1>2 DEF SetModelEnabled
<1>5. /\ ToggledRow(mrows, k, b) \in Tables
      /\ Tracks(IF b THEN Append(Kept(claims, Keys \ {k}), k) ELSE Kept(claims, Keys \ {k}),
                ToggledRow(mrows, k, b))
  BY <1>1, ToggledTracks
<1>6. prows' \in [Providers -> ProviderRow \cup {None}] /\ remembered' \subseteq Providers
  BY <1>4 DEF TypeInv
<1>7. TypeInv'
  BY <1>3, <1>4, <1>5, <1>6, CommitTypes
<1>8. QED
  BY <1>4, <1>5, <1>7 DEF ClaimInv, Claimed, Unclaimed

LEMMA DeleteModelKeeps ==
  ASSUME TypeInv, ClaimInv, NEW p \in Providers, NEW id \in Targets, DeleteModel(p, id)
  PROVE  TypeInv' /\ ClaimInv'
<1>1. id \in Ids /\ mrows \in Tables /\ Tracks(claims, mrows)
  BY ConstantsAssumption DEF TypeInv, ClaimInv
<1>2. PICK k \in Keys : k = <<p, id>>
  BY <1>1 DEF Keys
<1> DEFINE c == live[p]
           hard == Managed(p) \/ (k \in DOMAIN mrows /\ mrows[k].uiCreated)
<1>3. /\ c # None
      /\ mrows' = CASE Has(c, id) /\ hard -> WithoutRows(mrows, {k})
                    [] Has(c, id) /\ ~hard -> SoftRemovedRow(mrows, k, EntryOf(c, id))
                    [] ~Has(c, id) /\ Managed(p) -> DisabledRow(mrows, k)
                    [] ~Has(c, id) /\ ~Managed(p) -> ToggledRow(mrows, k, FALSE)
      /\ claims' = Unclaimed(k) /\ remembered' = remembered
  BY <1>2 DEF DeleteModel
<1>4. c \in Provider
  BY <1>3, LiveType
<1>5. hard \in BOOLEAN /\ Has(c, id) \in BOOLEAN /\ Managed(p) \in BOOLEAN
  <2>1. k \in DOMAIN mrows => mrows[k].uiCreated \in BOOLEAN
    BY <1>1, TableOf DEF ModelRow
  <2>2. QED
    BY <2>1, ManagedType DEF Has
<1> HIDE DEF c, hard
<1>7. PICK to \in Provider :
        /\ Commit(p, to)
        /\ prows' = IF Managed(p) THEN [prows EXCEPT ![p] = ProviderRowOf(to, TRUE)] ELSE prows
  BY DeleteModelEdits
<1>8. mrows' \in Tables /\ Tracks(Kept(claims, Keys \ {k}), mrows')
  <2>1. CASE Has(c, id) /\ hard
    <3>1. WithoutRows(mrows, {k}) \in Tables
      BY <1>1, WithoutRowsType
    <3>2. Tracks(Kept(claims, Keys \ {k}), WithoutRows(mrows, {k}))
      BY <1>1, RemovedTracks
    <3>3. QED
      BY <1>3, <2>1, <3>1, <3>2
  <2>2. CASE Has(c, id) /\ ~hard
    <3>1. PICK e \in Entry : e = EntryOf(c, id)
      BY <1>4, <2>2, PositionIs
    <3>2. SoftRemovedRow(mrows, k, e) \in Tables
          /\ Tracks(Kept(claims, Keys \ {k}), SoftRemovedRow(mrows, k, e))
      BY <1>1, SoftRemovedTracks
    <3>3. QED
      BY <1>3, <2>2, <3>1, <3>2
  <2>3. CASE ~Has(c, id) /\ Managed(p)
    <3>1. DisabledRow(mrows, k) \in Tables
          /\ Tracks(Kept(claims, Keys \ {k}), DisabledRow(mrows, k))
      BY <1>1, DisabledTracks
    <3>2. QED
      BY <1>3, <2>3, <3>1
  <2>4. CASE ~Has(c, id) /\ ~Managed(p)
    <3>1. ToggledRow(mrows, k, FALSE) \in Tables
          /\ Tracks(Kept(claims, Keys \ {k}), ToggledRow(mrows, k, FALSE))
      BY <1>1, ToggledTracks
    <3>2. QED
      BY <1>3, <2>4, <3>1
  <2>5. QED
    BY <1>5, <2>1, <2>2, <2>3, <2>4
<1>9. prows' \in [Providers -> ProviderRow \cup {None}]
  <2>1. ProviderRowOf(to, TRUE) \in ProviderRow
    BY <1>7, RowOfType
  <2>2. QED
    BY <1>7, <2>1 DEF TypeInv
<1>10. remembered' \subseteq Providers
  BY <1>3 DEF TypeInv
<1>11. TypeInv'
  BY <1>3, <1>7, <1>8, <1>9, <1>10, CommitTypes
<1>12. QED
  BY <1>3, <1>8, <1>11 DEF ClaimInv, Unclaimed

LEMMA OutsideKeeps ==
  ASSUME TypeInv, ClaimInv,
         \/ Publish \/ Restart \/ UNCHANGED vars
         \/ \E p \in Providers : LoseRow(p) \/ \E key \in Versions \cup {None} : EditToml(p, key)
  PROVE  TypeInv' /\ ClaimInv'
<1>1. CASE Publish
  <2>1. /\ committed # None /\ live' = [live EXCEPT ![committed.p] = committed.to]
        /\ committed' = None /\ mrows' = mrows /\ claims' = claims
        /\ toml' = toml /\ prows' = prows /\ remembered' = remembered
    BY <1>1 DEF Publish, history
  <2>2. committed.p \in Providers /\ committed.to \in Provider \cup {None}
    BY <2>1 DEF TypeInv
  <2>3. QED
    BY <2>1, <2>2 DEF TypeInv, ClaimInv
<1>2. CASE Restart
  <2>1. /\ live' = [p \in Providers |-> Replayed(p)]
        /\ remembered' \subseteq Providers
        /\ committed' = None /\ mrows' = mrows /\ claims' = claims
        /\ toml' = toml /\ prows' = prows
    BY <1>2 DEF Restart
  <2>2. live' \in [Providers -> Provider \cup {None}]
    BY <2>1, ReplayedType
  <2>3. QED
    BY <2>1, <2>2 DEF TypeInv, ClaimInv
<1>3. ASSUME NEW p \in Providers, LoseRow(p) PROVE TypeInv' /\ ClaimInv'
  BY <1>3 DEF LoseRow, TypeInv, ClaimInv
<1>4. ASSUME NEW p \in Providers, NEW key \in Versions \cup {None}, EditToml(p, key)
      PROVE  TypeInv' /\ ClaimInv'
  <2>1. PICK to : to = IF key = None THEN None ELSE [toml[p] EXCEPT !.key = key]
    OBVIOUS
  <2>2. toml[p] # None /\ toml' = [toml EXCEPT ![p] = to]
    BY <1>4, <2>1 DEF EditToml
  <2>3. to \in Provider \cup {None}
    <3>1. toml[p] \in Provider
      BY <2>2 DEF TypeInv
    <3>2. QED
      BY <2>1, <3>1 DEF Provider
  <2>4. toml' \in [Providers -> Provider \cup {None}]
    BY <2>2, <2>3 DEF TypeInv
  <2>5. UNCHANGED <<prows, mrows, live, remembered, committed, claims>>
    BY <1>4 DEF EditToml
  <2>6. QED
    BY <2>4, <2>5 DEF TypeInv, ClaimInv
<1>5. CASE UNCHANGED vars
  BY <1>5 DEF vars, history, TypeInv, ClaimInv
<1>6. QED
  BY <1>1, <1>2, <1>3, <1>4, <1>5

LEMMA NextKeeps == TypeInv /\ ClaimInv /\ [Next]_vars => TypeInv' /\ ClaimInv'
<1> SUFFICES ASSUME TypeInv, ClaimInv, [Next]_vars PROVE TypeInv' /\ ClaimInv'
  OBVIOUS
<1>1. ASSUME NEW p \in Providers, DeleteProvider(p) PROVE TypeInv' /\ ClaimInv'
  BY <1>1, DeleteProviderKeeps
<1>2. ASSUME NEW p \in Providers, NEW b \in BOOLEAN, SetProviderEnabled(p, b)
      PROVE  TypeInv' /\ ClaimInv'
  BY <1>2, SetProviderKeeps
<1>3. ASSUME NEW p \in Providers, NEW edit \in Edits, UpdateProvider(p, edit)
      PROVE  TypeInv' /\ ClaimInv'
  BY <1>3, UpdateKeeps
<1>4. ASSUME NEW p \in Providers, NEW e \in Entries, PutModel(p, e)
      PROVE  TypeInv' /\ ClaimInv'
  BY <1>4, PutKeeps
<1>5. ASSUME NEW p \in Providers, NEW id \in Targets, DeleteModel(p, id)
      PROVE  TypeInv' /\ ClaimInv'
  BY <1>5, DeleteModelKeeps
<1>6. ASSUME NEW p \in Providers, NEW id \in Targets, NEW b \in BOOLEAN, SetModelEnabled(p, id, b)
      PROVE  TypeInv' /\ ClaimInv'
  BY <1>6, SetModelKeeps
<1>7. ASSUME NEW p \in Providers, NEW c \in NewProviders, NEW preserve \in BOOLEAN,
             CreateProvider(p, c, preserve)
      PROVE  TypeInv' /\ ClaimInv'
  BY <1>7, CreateKeeps
<1>8. ASSUME \/ Publish \/ Restart \/ UNCHANGED vars
             \/ \E p \in Providers : LoseRow(p) \/ \E key \in Versions \cup {None} : EditToml(p, key)
      PROVE  TypeInv' /\ ClaimInv'
  BY <1>8, OutsideKeeps
<1>9. QED
  BY <1>1, <1>2, <1>3, <1>4, <1>5, <1>6, <1>7, <1>8 DEF Next

LEMMA InitKeeps == Init => TypeInv /\ ClaimInv
<1> SUFFICES ASSUME Init PROVE TypeInv /\ ClaimInv
  OBVIOUS
<1>1. mrows \in Tables /\ DOMAIN mrows = {}
  <2>1. mrows = <<>>
    BY DEF Init
  <2>2. <<>> \in [{} -> ModelRow] /\ DOMAIN <<>> = {}
    OBVIOUS
  <2>3. QED
    BY <2>1, <2>2, TableOf
<1>2. TypeInv
  BY <1>1, ConstantsAssumption DEF Init, TypeInv
<1>3. claims \in Seq(Keys) /\ Len(claims) = 0
  <2>1. claims = <<>>
    BY DEF Init
  <2>2. <<>> \in Seq(Keys) /\ Len(<<>>) = 0
    OBVIOUS
  <2>3. QED
    BY <2>1, <2>2
<1>4. ClaimInv
  BY <1>1, <1>3 DEF ClaimInv, Tracks, InClaimOrder, Active
<1>5. QED
  BY <1>2, <1>4

(* Every row and every configuration stays well formed. *)
THEOREM TypeCorrect == Spec => []TypeOK
<1>1. TypeInv /\ CredentialsStayInToml => TypeOK
  BY TableOf DEF TypeInv, TypeOK
<1>2. QED
  BY <1>1, InitKeeps, NextKeeps, CredentialsHold, PTL DEF Spec

(* The rows of a model are its enabled claims, in the order they were made. *)
THEOREM ClaimsInOrderHolds == Spec => []ClaimsInOrder
<1>1. TypeInv /\ ClaimInv => ClaimsInOrder
  BY TracksInOrder DEF TypeInv, ClaimInv, ClaimsInOrder
<1>2. QED
  BY <1>1, InitKeeps, NextKeeps, PTL DEF Spec
-----------------------------------------------------------------------------
(* A start restores the providers. *)

\* What the row r of provider p, its TOML entry t and the remembered
\* providers say of the configuration i that its mutations intended.
Agrees(p, r, t, i, rem) ==
  /\ r = None /\ p \notin rem /\ t # None /\ i # None =>
       i.enabled = t.enabled /\ i.dest = t.dest
  /\ r # None /\ r.managed =>
       /\ ~r.removed /\ r.json # None /\ p \in rem /\ i # None
       /\ i.enabled = r.enabled /\ i.dest = r.json.dest /\ i.key = r.json.key
  /\ r # None /\ ~r.managed /\ t # None =>
       /\ r.removed => i = None
       /\ ~r.removed => i # None
       /\ i # None => i.enabled = r.enabled
       /\ i # None /\ r.json = None => i.dest = t.dest
       /\ i # None /\ r.json # None => i.dest = r.json.dest
RestoreInv ==
  \A p \in Providers : Agrees(p, prows[p], toml[p], Intended(p), remembered)

(* Nobody else is touched by a mutation of p. *)
LEMMA MutationRestores ==
  ASSUME TypeInv, RestoreInv, NEW p \in Providers, NEW to \in Provider \cup {None}, Commit(p, to),
         \A q \in Providers \ {p} : prows'[q] = prows[q] /\ (q \in remembered' <=> q \in remembered),
         Agrees(p, prows'[p], toml[p], to, remembered')
  PROVE  RestoreInv'
<1>1. toml' = toml /\ live' = live /\ committed = None /\ committed' = [p |-> p, to |-> to]
  BY DEF Commit
<1>2. committed' # None
  BY <1>1, NoneIsNone
<1>3. \A q \in Providers : Intended(q)' = IF q = p THEN to ELSE Intended(q)
  BY <1>1, <1>2 DEF Intended
<1>4. ASSUME NEW q \in Providers
      PROVE  Agrees(q, prows'[q], toml'[q], Intended(q)', remembered')
  <2>1. CASE q = p
    BY <1>1, <1>3, <2>1
  <2>2. CASE q # p
    <3>1. Agrees(q, prows[q], toml[q], Intended(q), remembered)
      BY DEF RestoreInv
    <3>2. prows'[q] = prows[q] /\ toml'[q] = toml[q] /\ Intended(q)' = Intended(q)
      BY <1>1, <1>3, <2>2
    <3>3. q \in remembered' <=> q \in remembered
      BY <2>2
    <3>4. Agrees(q, prows[q], toml[q], Intended(q), remembered')
      BY <3>1, <3>3 DEF Agrees
    <3>5. QED
      BY <3>2, <3>4
  <2>3. QED
    BY <2>1, <2>2
<1>5. QED
  BY <1>4 DEF RestoreInv, Agrees

(* A row written in full says what it was written for. *)
LEMMA WrittenAgrees ==
  ASSUME NEW p, NEW c \in Provider, NEW t \in Provider \cup {None}, NEW rem
  PROVE  /\ p \in rem => Agrees(p, ProviderRowOf(c, TRUE), t, c, rem)
         /\ Agrees(p, ProviderRowOf(c, FALSE), t, c, rem)
<1>1. c # None
  BY NoneIsNone
<1>2. PICK r \in ProviderRow : r = ProviderRowOf(c, TRUE)
  BY RowOfType
<1>3. r # None /\ r.managed /\ ~r.removed /\ r.json = c /\ r.enabled = c.enabled
  BY <1>2, NoneIsNone DEF ProviderRowOf, Snapshot
<1>4. p \in rem => Agrees(p, r, t, c, rem)
  BY <1>1, <1>3 DEF Agrees
<1>5. PICK s \in ProviderRow : s = ProviderRowOf(c, FALSE)
  BY RowOfType
<1>6. s # None /\ ~s.managed /\ ~s.removed /\ s.enabled = c.enabled /\ s.json.dest = c.dest
      /\ s.json \in Provider
  <2>1. s.json = Snapshot(c, FALSE) /\ Snapshot(c, FALSE) \in Provider
    BY <1>5 DEF ProviderRowOf, Snapshot, Provider
  <2>2. QED
    BY <1>5, <2>1, NoneIsNone DEF ProviderRowOf, Snapshot
<1>7. s.json # None
  BY <1>6, NoneIsNone
<1>8. Agrees(p, s, t, c, rem)
  BY <1>1, <1>6, <1>7 DEF Agrees
<1>9. QED
  BY <1>2, <1>4, <1>5, <1>8

(* A mutation of the models only: the settings stay. *)
LEMMA ModelsAgree ==
  ASSUME NEW p, NEW r, NEW t, NEW c \in Provider, NEW d \in Provider, NEW rem,
         Alike(d, c), Agrees(p, r, t, c, rem)
  PROVE  Agrees(p, r, t, d, rem)
<1>1. c # None /\ d # None
  BY NoneIsNone
<1>2. QED
  BY <1>1 DEF Alike, Agrees

(* A mutation starts from what is published. *)
LEMMA LiveAgrees ==
  ASSUME TypeInv, RestoreInv, NEW p \in Providers, NEW to, Commit(p, to), live[p] # None
  PROVE  live[p] \in Provider /\ Agrees(p, prows[p], toml[p], live[p], remembered)
<1>1. Intended(p) = live[p]
  BY DEF Commit, Intended
<1>2. QED
  BY <1>1, LiveType DEF RestoreInv

LEMMA CreateRestores ==
  ASSUME TypeInv, RestoreInv, NEW p \in Providers, NEW c \in NewProviders, NEW preserve,
         CreateProvider(p, c, preserve)
  PROVE  RestoreInv'
<1>1. c \in Provider /\ toml[p] \in Provider \cup {None}
  BY ConstantsAssumption DEF TypeInv
<1>2. /\ Commit(p, c)
      /\ prows' = [prows EXCEPT ![p] = ProviderRowOf(c, TRUE)]
      /\ remembered' = remembered \cup {p}
  BY DEF CreateProvider
<1>3. /\ prows'[p] = ProviderRowOf(c, TRUE)
      /\ \A q \in Providers \ {p} : prows'[q] = prows[q] /\ (q \in remembered' <=> q \in remembered)
  BY <1>2 DEF TypeInv
<1>4. Agrees(p, ProviderRowOf(c, TRUE), toml[p], c, remembered')
  BY <1>1, <1>2, WrittenAgrees
<1>5. QED
  BY <1>1, <1>2, <1>3, <1>4, MutationRestores

LEMMA UpdateRestores ==
  ASSUME TypeInv, RestoreInv, NEW p \in Providers, NEW edit \in Edits, UpdateProvider(p, edit)
  PROVE  RestoreInv'
<1>1. PICK to : to = Edited(live[p], edit)
  OBVIOUS
<1>2. /\ live[p] # None /\ Commit(p, to)
      /\ prows' = [prows EXCEPT ![p] = ProviderRowOf(to, Managed(p))]
      /\ remembered' = IF Managed(p) THEN remembered \cup {p} ELSE remembered \ {p}
  BY <1>1 DEF UpdateProvider
<1>3. to \in Provider
  <2>1. edit \in [enabled: BOOLEAN, dest: Versions, key: Versions \cup {None}]
    BY ConstantsAssumption
  <2>2. PICK c \in Provider : c = live[p]
    BY <1>2, LiveType
  <2>3. QED
    BY <1>1, <2>1, <2>2 DEF Edited, Provider
<1>4. prows'[p] = ProviderRowOf(to, Managed(p)) /\ toml[p] \in Provider \cup {None}
  BY <1>2 DEF TypeInv
<1>5. \A q \in Providers \ {p} : prows'[q] = prows[q] /\ (q \in remembered' <=> q \in remembered)
  BY <1>2 DEF TypeInv
<1>6. Agrees(p, prows'[p], toml[p], to, remembered')
  <2>1. CASE Managed(p)
    <3>1. p \in remembered' /\ prows'[p] = ProviderRowOf(to, TRUE)
      BY <1>2, <1>4, <2>1, ManagedType
    <3>2. QED
      BY <1>3, <1>4, <3>1, WrittenAgrees
  <2>2. CASE ~Managed(p)
    <3>1. prows'[p] = ProviderRowOf(to, FALSE)
      BY <1>4, <2>2, ManagedType
    <3>2. QED
      BY <1>3, <1>4, <3>1, WrittenAgrees
  <2>3. QED
    BY <2>1, <2>2
<1>7. QED
  BY <1>2, <1>3, <1>5, <1>6, MutationRestores

LEMMA DeleteProviderRestores ==
  ASSUME TypeInv, RestoreInv, NEW p \in Providers, DeleteProvider(p)
  PROVE  RestoreInv'
<1>1. Commit(p, None) /\ remembered' = remembered \ {p}
  BY DEF DeleteProvider
<1>2. PICK row : /\ prows' = [prows EXCEPT ![p] = row]
                 /\ row = None \/ (row.managed = FALSE /\ row.removed = TRUE)
  BY DEF DeleteProvider
<1>3. /\ prows'[p] = row
      /\ \A q \in Providers \ {p} : prows'[q] = prows[q] /\ (q \in remembered' <=> q \in remembered)
  BY <1>1, <1>2 DEF TypeInv
<1>4. Agrees(p, row, toml[p], None, remembered')
  BY <1>2 DEF Agrees
<1>5. QED
  BY <1>1, <1>3, <1>4, MutationRestores

LEMMA SetProviderRestores ==
  ASSUME TypeInv, RestoreInv, NEW p \in Providers, NEW b \in BOOLEAN, SetProviderEnabled(p, b)
  PROVE  RestoreInv'
<1>1. PICK to : to = [live[p] EXCEPT !.enabled = b]
  OBVIOUS
<1>2. live[p] # None /\ Commit(p, to) /\ remembered' = remembered
  BY <1>1 DEF SetProviderEnabled
<1>3. PICK c \in Provider : c = live[p] /\ Agrees(p, prows[p], toml[p], c, remembered)
  BY <1>2, LiveAgrees
<1>4. to \in Provider /\ to.enabled = b /\ to.dest = c.dest /\ to.key = c.key
  BY <1>1, <1>3 DEF Provider
<1>5. c # None /\ to # None
  BY <1>4, NoneIsNone
<1>6. \E row : prows' = [prows EXCEPT ![p] = row] /\ Agrees(p, row, toml[p], to, remembered')
  <2>1. CASE prows[p] # None
    <3>1. PICK r \in ProviderRow : r = prows[p]
      BY <2>1 DEF TypeInv
    <3>2. PICK row \in ProviderRow : row = [r EXCEPT !.enabled = b, !.removed = FALSE]
      BY DEF ProviderRow
    <3>3. /\ row.enabled = b /\ ~row.removed /\ row.managed = r.managed /\ row.json = r.json
          /\ row # None /\ r # None
      BY <3>1, <3>2, NoneIsNone DEF ProviderRow
    <3>4. Agrees(p, row, toml[p], to, remembered)
      BY <1>3, <1>4, <1>5, <3>1, <3>3 DEF Agrees
    <3>5. prows' = [prows EXCEPT ![p] = row]
      BY <2>1, <3>1, <3>2 DEF SetProviderEnabled
    <3>6. QED
      BY <1>2, <3>4, <3>5
  <2>2. CASE prows[p] = None /\ Managed(p)
    <3>1. prows' = [prows EXCEPT ![p] = ProviderRowOf(to, TRUE)]
      BY <1>1, <2>2 DEF SetProviderEnabled
    <3>2. p \in remembered /\ toml[p] \in Provider \cup {None}
      BY <2>2 DEF Managed, TypeInv
    <3>3. Agrees(p, ProviderRowOf(to, TRUE), toml[p], to, remembered)
      BY <1>4, <3>2, WrittenAgrees
    <3>4. QED
      BY <1>2, <3>1, <3>3
  <2>3. CASE prows[p] = None /\ ~Managed(p)
    <3>1. PICK row \in ProviderRow :
            row = [enabled |-> b, removed |-> FALSE, managed |-> FALSE, json |-> None]
      BY DEF ProviderRow
    <3>2. prows' = [prows EXCEPT ![p] = row]
      BY <2>3, <3>1 DEF SetProviderEnabled
    <3>3. row # None /\ row.enabled = b /\ ~row.removed /\ ~row.managed /\ row.json = None
      BY <3>1, NoneIsNone
    <3>4. toml[p] # None => c.dest = toml[p].dest
      BY <1>3, <1>5, <2>3 DEF Managed, Agrees
    <3>5. Agrees(p, row, toml[p], to, remembered)
      BY <1>4, <1>5, <3>3, <3>4 DEF Agrees
    <3>6. QED
      BY <1>2, <3>2, <3>5
  <2>4. QED
    BY <2>1, <2>2, <2>3
<1>7. PICK row : prows' = [prows EXCEPT ![p] = row] /\ Agrees(p, row, toml[p], to, remembered')
  BY <1>6
<1>8. prows'[p] = row /\ \A q \in Providers \ {p} : prows'[q] = prows[q]
  BY <1>7 DEF TypeInv
<1>9. QED
  BY <1>2, <1>4, <1>7, <1>8, MutationRestores

(* A mutation of models that writes no provider row. *)
LEMMA EditRestores ==
  ASSUME TypeInv, RestoreInv, NEW p \in Providers, NEW to \in Provider,
         Commit(p, to), live[p] # None, Alike(to, live[p]), UNCHANGED <<prows, remembered>>
  PROVE  RestoreInv'
<1>1. PICK c \in Provider : c = live[p] /\ Agrees(p, prows[p], toml[p], c, remembered)
  BY LiveAgrees
<1>2. Agrees(p, prows[p], toml[p], to, remembered)
  BY <1>1, ModelsAgree
<1>3. QED
  BY <1>2, MutationRestores

LEMMA ModelRestores ==
  ASSUME TypeInv, RestoreInv, NEW p \in Providers,
         \/ \E e \in Entries : PutModel(p, e)
         \/ \E id \in Targets : DeleteModel(p, id)
         \/ \E id \in Targets, b \in BOOLEAN : SetModelEnabled(p, id, b)
  PROVE  RestoreInv'
<1>1. ASSUME NEW e \in Entries, PutModel(p, e) PROVE RestoreInv'
  <2>1. PICK to \in Provider : to = Upserted(live[p], e) /\ Alike(to, live[p])
    BY <1>1, PutEdits
  <2>2. live[p] # None /\ Commit(p, to) /\ UNCHANGED <<prows, remembered>>
    BY <1>1, <2>1 DEF PutModel
  <2>3. QED
    BY <2>1, <2>2, EditRestores
<1>2. ASSUME NEW id \in Targets, NEW b \in BOOLEAN, SetModelEnabled(p, id, b) PROVE RestoreInv'
  <2>1. PICK to \in Provider : Alike(to, live[p]) /\ Commit(p, to)
    BY <1>2, SetModelEdits
  <2>2. live[p] # None /\ UNCHANGED <<prows, remembered>>
    BY <1>2 DEF SetModelEnabled
  <2>3. QED
    BY <2>1, <2>2, EditRestores
<1>3. ASSUME NEW id \in Targets, DeleteModel(p, id) PROVE RestoreInv'
  <2>1. PICK to \in Provider :
          /\ Alike(to, live[p]) /\ Commit(p, to)
          /\ prows' = IF Managed(p) THEN [prows EXCEPT ![p] = ProviderRowOf(to, TRUE)] ELSE prows
    BY <1>3, DeleteModelEdits
  <2>2. live[p] # None /\ remembered' = remembered
    BY <1>3 DEF DeleteModel
  <2>3. CASE ~Managed(p)
    <3>1. prows' = prows
      BY <2>1, <2>3
    <3>2. QED
      BY <2>1, <2>2, <3>1, EditRestores
  <2>4. CASE Managed(p)
    <3>1. Agrees(p, prows[p], toml[p], live[p], remembered)
      BY <2>1, <2>2, LiveAgrees
    <3>2. p \in remembered /\ toml[p] \in Provider \cup {None}
      BY <2>4, <3>1 DEF Agrees, Managed, TypeInv
    <3>3. prows' = [prows EXCEPT ![p] = ProviderRowOf(to, TRUE)]
      BY <2>1, <2>4
    <3>4. prows'[p] = ProviderRowOf(to, TRUE) /\ \A q \in Providers \ {p} : prows'[q] = prows[q]
      BY <3>3 DEF TypeInv
    <3>5. Agrees(p, ProviderRowOf(to, TRUE), toml[p], to, remembered)
      BY <3>2, WrittenAgrees
    <3>6. QED
      BY <2>1, <2>2, <3>4, <3>5, MutationRestores
  <2>5. QED
    BY <2>3, <2>4
<1>4. QED
  BY <1>1, <1>2, <1>3

LEMMA PublishRestores ==
  ASSUME TypeInv, RestoreInv, Publish
  PROVE  RestoreInv'
<1>1. /\ committed # None /\ live' = [live EXCEPT ![committed.p] = committed.to]
      /\ committed' = None /\ toml' = toml /\ prows' = prows /\ remembered' = remembered
  BY DEF Publish
<1>2. \A q \in Providers : Intended(q)' = Intended(q)
  BY <1>1 DEF Intended, TypeInv
<1>3. \A q \in Providers : Agrees(q, prows'[q], toml'[q], Intended(q)', remembered')
  BY <1>1, <1>2 DEF RestoreInv
<1>4. QED
  BY <1>3 DEF RestoreInv, Agrees

LEMMA RestartRestores ==
  ASSUME TypeInv, RestoreInv, Restart
  PROVE  RestoreInv'
<1>1. /\ live' = [p \in Providers |-> Replayed(p)]
      /\ remembered' = {p \in Providers :
           prows[p] # None /\ ~prows[p].removed /\ prows[p].managed /\ prows[p].json # None}
      /\ committed' = None /\ toml' = toml /\ prows' = prows
  BY DEF Restart
<1>2. ASSUME NEW p \in Providers
      PROVE  Agrees(p, prows'[p], toml'[p], Intended(p)', remembered')
  <2>1. Intended(p)' = Replayed(p)
    BY <1>1 DEF Intended
  <2>2. PICK r, t, i, base :
          /\ r \in ProviderRow \cup {None} /\ t \in Provider \cup {None}
          /\ r = prows[p] /\ t = toml[p] /\ i = Replayed(p) /\ base = ReplayedProvider(p)
    BY DEF TypeInv
  <2>3. \/ base = None /\ i = None
        \/ base \in Provider /\ i \in Provider /\ base # None /\ i # None /\ Alike(i, base)
    BY <2>2, ReplayedIs, NoneIsNone
  <2>4. Agrees(p, r, t, Intended(p), remembered)
    BY <2>2 DEF RestoreInv
  <2>5. CASE r = None
    <3>1. base = t
      BY <2>2, <2>5 DEF ReplayedProvider
    <3>2. QED
      BY <1>1, <2>1, <2>2, <2>3, <2>5, <3>1 DEF Agrees, Alike
  <2>6. CASE r # None /\ r.managed
    <3>1. ~r.removed /\ r.json # None
      BY <2>4, <2>6 DEF Agrees
    <3>2. PICK json \in Provider : json = r.json
      BY <2>2, <2>6, <3>1 DEF ProviderRow
    <3>3. base = [json EXCEPT !.enabled = r.enabled]
      BY <2>2, <2>6, <3>1, <3>2 DEF ReplayedProvider
    <3>4. base \in Provider
      BY <2>2, <2>6, <3>2, <3>3 DEF ProviderRow, Provider
    <3>5. /\ base # None /\ base.enabled = r.enabled
          /\ base.dest = r.json.dest /\ base.key = r.json.key
      BY <3>2, <3>3, <3>4, NoneIsNone DEF Provider
    <3>6. p \in remembered'
      BY <1>1, <2>2, <2>6, <3>1
    <3>7. QED
      BY <1>1, <2>1, <2>2, <2>3, <2>6, <3>1, <3>5, <3>6 DEF Agrees, Alike
  <2>7. CASE r # None /\ ~r.managed
    <3>1. CASE t = None
      BY <1>1, <2>1, <2>2, <2>7, <3>1 DEF Agrees
    <3>2. CASE t # None /\ r.removed
      <4>1. base = None
        BY <2>2, <2>7, <3>2 DEF ReplayedProvider
      <4>2. i = None
        BY <2>3, <4>1
      <4>3. QED
        BY <1>1, <2>1, <2>2, <2>7, <3>2, <4>2 DEF Agrees
    <3>3. CASE t # None /\ ~r.removed /\ r.json = None
      <4>1. base = [t EXCEPT !.enabled = r.enabled]
        BY <2>2, <2>7, <3>3 DEF ReplayedProvider
      <4>2. base \in Provider
        BY <2>2, <2>7, <3>3, <4>1 DEF ProviderRow, Provider
      <4>3. base # None /\ base.enabled = r.enabled /\ base.dest = t.dest
        BY <3>3, <4>1, <4>2, NoneIsNone DEF Provider
      <4>4. QED
        BY <1>1, <2>1, <2>2, <2>3, <2>7, <3>3, <4>3 DEF Agrees, Alike
    <3>4. CASE t # None /\ ~r.removed /\ r.json # None
      <4>1. PICK json \in Provider : json = r.json
        BY <2>2, <2>7, <3>4 DEF ProviderRow
      <4>2. base = [json EXCEPT !.enabled = r.enabled, !.key = t.key,
                                !.catalog = t.catalog, !.disabled = t.disabled]
        BY <2>2, <2>7, <3>4, <4>1 DEF ReplayedProvider
      <4>3. base \in Provider
        BY <2>2, <2>7, <3>4, <4>1, <4>2 DEF ProviderRow, Provider
      <4>4. base # None /\ base.enabled = r.enabled /\ base.dest = r.json.dest
        BY <4>1, <4>2, <4>3, NoneIsNone DEF Provider
      <4>5. QED
        BY <1>1, <2>1, <2>2, <2>3, <2>7, <3>4, <4>4 DEF Agrees, Alike
    <3>5. QED
      BY <3>1, <3>2, <3>3, <3>4
  <2>8. QED
    BY <2>5, <2>6, <2>7
<1>3. QED
  BY <1>2 DEF RestoreInv, Agrees

LEMMA OutsideRestores ==
  ASSUME TypeInv, RestoreInv, NEW p \in Providers,
         LoseRow(p) \/ \E key \in Versions \cup {None} : EditToml(p, key)
  PROVE  RestoreInv'
<1>1. live' = live /\ committed' = committed /\ remembered' = remembered
  BY DEF LoseRow, EditToml
<1>2. \A q \in Providers : /\ Intended(q)' = Intended(q)
                           /\ Agrees(q, prows[q], toml[q], Intended(q), remembered)
  BY <1>1 DEF Intended, RestoreInv
<1>3. ASSUME LoseRow(p), NEW q \in Providers
      PROVE  Agrees(q, prows'[q], toml'[q], Intended(q)', remembered')
  <2>1. prows' = [prows EXCEPT ![p] = None] /\ toml' = toml /\ prows[p] # None /\ prows[p].managed
    BY <1>3 DEF LoseRow
  <2>2. CASE q = p
    <3>1. p \in remembered
      BY <1>2, <2>1 DEF Agrees
    <3>2. prows'[p] = None
      BY <2>1 DEF TypeInv
    <3>3. QED
      BY <1>1, <2>2, <3>1, <3>2 DEF Agrees
  <2>3. CASE q # p
    BY <1>1, <1>2, <2>1, <2>3 DEF TypeInv
  <2>4. QED
    BY <2>2, <2>3
<1>4. ASSUME NEW key \in Versions \cup {None}, EditToml(p, key), NEW q \in Providers
      PROVE  Agrees(q, prows'[q], toml'[q], Intended(q)', remembered')
  <2>1. PICK to : to = IF key = None THEN None ELSE [toml[p] EXCEPT !.key = key]
    OBVIOUS
  <2>2. toml[p] # None /\ toml' = [toml EXCEPT ![p] = to] /\ prows' = prows
    BY <1>4, <2>1 DEF EditToml
  <2>3. CASE q = p
    <3>1. PICK t \in Provider : t = toml[p]
      BY <2>2 DEF TypeInv
    <3>2. t # None /\ (to = None \/ (to.enabled = t.enabled /\ to.dest = t.dest))
      BY <2>1, <2>2, <3>1 DEF Provider
    <3>3. toml'[p] = to
      BY <2>2 DEF TypeInv
    <3>4. Agrees(p, prows[p], to, Intended(p), remembered)
      BY <1>2, <3>1, <3>2 DEF Agrees
    <3>5. QED
      BY <1>1, <1>2, <2>2, <2>3, <3>3, <3>4
  <2>4. CASE q # p
    BY <1>1, <1>2, <2>2, <2>4 DEF TypeInv
  <2>5. QED
    BY <2>3, <2>4
<1>5. \A q \in Providers : Agrees(q, prows'[q], toml'[q], Intended(q)', remembered')
  BY <1>3, <1>4
<1>6. QED
  BY <1>5 DEF RestoreInv, Agrees

LEMMA NextRestores == TypeInv /\ RestoreInv /\ [Next]_vars => RestoreInv'
<1> SUFFICES ASSUME TypeInv, RestoreInv, [Next]_vars PROVE RestoreInv'
  OBVIOUS
<1>1. CASE UNCHANGED vars
  BY <1>1 DEF vars, RestoreInv, Agrees, Intended
<1>2. ASSUME NEW p \in Providers, DeleteProvider(p) PROVE RestoreInv'
  BY <1>2, DeleteProviderRestores
<1>3. ASSUME NEW p \in Providers, NEW b \in BOOLEAN, SetProviderEnabled(p, b) PROVE RestoreInv'
  BY <1>3, SetProviderRestores
<1>4. ASSUME NEW p \in Providers, NEW edit \in Edits, UpdateProvider(p, edit) PROVE RestoreInv'
  BY <1>4, UpdateRestores
<1>5. ASSUME NEW p \in Providers, NEW c \in NewProviders, NEW preserve \in BOOLEAN,
             CreateProvider(p, c, preserve)
      PROVE  RestoreInv'
  BY <1>5, CreateRestores
<1>6. ASSUME NEW p \in Providers,
             \/ \E e \in Entries : PutModel(p, e)
             \/ \E id \in Targets : DeleteModel(p, id)
             \/ \E id \in Targets, b \in BOOLEAN : SetModelEnabled(p, id, b)
      PROVE  RestoreInv'
  BY <1>6, ModelRestores
<1>7. ASSUME NEW p \in Providers,
             LoseRow(p) \/ \E key \in Versions \cup {None} : EditToml(p, key)
      PROVE  RestoreInv'
  BY <1>7, OutsideRestores
<1>8. QED
  BY <1>1, <1>2, <1>3, <1>4, <1>5, <1>6, <1>7, PublishRestores, RestartRestores DEF Next

(* What agrees is what a start makes of it. *)
LEMMA AgreesRestores == TypeInv /\ RestoreInv => ProvidersRestored
<1> SUFFICES ASSUME TypeInv, RestoreInv, NEW p \in Providers, ~Lost(p), ~Resurrected(p)
             PROVE  SameProvider(Replayed(p), Expected(p))
  BY DEF ProvidersRestored
<1>1. PICK r, t, i, base, e, re :
        /\ r \in ProviderRow \cup {None} /\ t \in Provider \cup {None}
        /\ i \in Provider \cup {None}
        /\ r = prows[p] /\ t = toml[p] /\ i = Intended(p) /\ base = ReplayedProvider(p)
        /\ e = Expected(p) /\ re = Replayed(p)
  <2>1. Intended(p) \in Provider \cup {None}
    BY DEF TypeInv, Intended
  <2>2. QED
    BY <2>1 DEF TypeInv
<1>2. \/ base = None /\ re = None
      \/ base # None /\ re # None /\ Alike(re, base)
  BY <1>1, ReplayedIs, NoneIsNone
<1>3. Agrees(p, r, t, i, remembered)
  BY <1>1 DEF RestoreInv
<1>4. SameProvider(base, e) => SameProvider(re, e)
  BY <1>2 DEF SameProvider, Alike
<1>5. i # None /\ t # None =>
        LET k == [i EXCEPT !.key = t.key] IN
        k # None /\ k.enabled = i.enabled /\ k.dest = i.dest /\ k.key = t.key
  <2>1. SUFFICES ASSUME i \in Provider, t \in Provider, NEW k, k = [i EXCEPT !.key = t.key]
                 PROVE  k # None /\ k.enabled = i.enabled /\ k.dest = i.dest /\ k.key = t.key
    BY <1>1
  <2>2. k \in Provider
    BY <2>1 DEF Provider
  <2>3. QED
    BY <2>1, <2>2, NoneIsNone DEF Provider
<1>6. CASE r = None
  <2>1. p \notin remembered /\ (t = None \/ i # None) /\ base = t /\ ~Managed(p)
    BY <1>1, <1>6 DEF Lost, Resurrected, ReplayedProvider, Managed
  <2>2. CASE t = None
    <3>1. e = None
      BY <1>1, <2>1, <2>2 DEF Expected
    <3>2. QED
      BY <1>1, <1>4, <2>1, <2>2, <3>1 DEF SameProvider
  <2>3. CASE t # None
    <3>1. e = [i EXCEPT !.key = t.key]
      BY <1>1, <2>1, <2>3 DEF Expected
    <3>2. i.enabled = t.enabled /\ i.dest = t.dest
      BY <1>3, <1>6, <2>1, <2>3 DEF Agrees
    <3>3. QED
      BY <1>1, <1>4, <1>5, <2>1, <2>3, <3>1, <3>2 DEF SameProvider
  <2>4. QED
    BY <2>2, <2>3
<1>7. CASE r # None /\ r.managed
  <2>1. /\ ~r.removed /\ r.json # None /\ i # None
        /\ i.enabled = r.enabled /\ i.dest = r.json.dest /\ i.key = r.json.key
    BY <1>3, <1>7 DEF Agrees
  <2>2. e = i
    BY <1>1, <1>7, <2>1 DEF Expected, Managed
  <2>3. PICK json \in Provider : json = r.json
    BY <1>1, <1>7, <2>1 DEF ProviderRow
  <2>4. base = [json EXCEPT !.enabled = r.enabled]
    BY <1>1, <1>7, <2>1, <2>3 DEF ReplayedProvider
  <2>5. base \in Provider
    BY <1>1, <1>7, <2>3, <2>4 DEF ProviderRow, Provider
  <2>6. /\ base # None /\ base.enabled = r.enabled
        /\ base.dest = json.dest /\ base.key = json.key
    BY <2>4, <2>5, NoneIsNone DEF Provider
  <2>7. QED
    BY <1>1, <1>4, <2>1, <2>2, <2>3, <2>6 DEF SameProvider
<1>8. CASE r # None /\ ~r.managed
  <2>1. ~Managed(p)
    BY <1>1, <1>8 DEF Managed
  <2>2. CASE t = None
    <3>1. e = None
      BY <1>1, <2>1, <2>2 DEF Expected
    <3>2. base = None
      BY <1>1, <1>8, <2>2 DEF ReplayedProvider
    <3>3. QED
      BY <1>1, <1>4, <3>1, <3>2 DEF SameProvider
  <2>3. CASE t # None /\ r.removed
    <3>1. i = None
      BY <1>3, <1>8, <2>3 DEF Agrees
    <3>2. e = None
      BY <1>1, <3>1 DEF Expected
    <3>3. base = None
      BY <1>1, <1>8, <2>3 DEF ReplayedProvider
    <3>4. QED
      BY <1>1, <1>4, <3>2, <3>3 DEF SameProvider
  <2>4. CASE t # None /\ ~r.removed
    <3>1. i # None /\ i.enabled = r.enabled
          /\ (r.json = None => i.dest = t.dest) /\ (r.json # None => i.dest = r.json.dest)
      BY <1>3, <1>8, <2>4 DEF Agrees
    <3>2. e = [i EXCEPT !.key = t.key]
      BY <1>1, <2>1, <2>4, <3>1 DEF Expected
    <3>3. e # None /\ e.enabled = i.enabled /\ e.dest = i.dest /\ e.key = t.key
      BY <1>5, <2>4, <3>1, <3>2
    <3>4. base # None /\ base.enabled = r.enabled /\ base.dest = i.dest /\ base.key = t.key
      <4>1. t \in Provider
        BY <1>1, <2>4
      <4>2. CASE r.json = None
        <5>1. base = [t EXCEPT !.enabled = r.enabled]
          BY <1>1, <1>8, <2>4, <4>2 DEF ReplayedProvider
        <5>2. base \in Provider
          BY <1>1, <1>8, <4>1, <5>1 DEF ProviderRow, Provider
        <5>3. QED
          BY <3>1, <4>1, <4>2, <5>1, <5>2, NoneIsNone DEF Provider
      <4>3. CASE r.json # None
        <5>1. PICK json \in Provider : json = r.json
          BY <1>1, <1>8, <4>3 DEF ProviderRow
        <5>2. base = [json EXCEPT !.enabled = r.enabled, !.key = t.key,
                                  !.catalog = t.catalog, !.disabled = t.disabled]
          BY <1>1, <1>8, <2>4, <4>3, <5>1 DEF ReplayedProvider
        <5>3. base \in Provider
          BY <1>1, <1>8, <4>1, <5>1, <5>2 DEF ProviderRow, Provider
        <5>4. QED
          BY <3>1, <4>3, <5>1, <5>2, <5>3, NoneIsNone DEF Provider
      <4>4. QED
        BY <4>2, <4>3
    <3>5. QED
      BY <1>1, <1>4, <3>1, <3>3, <3>4 DEF SameProvider
  <2>5. QED
    BY <2>2, <2>3, <2>4
<1>9. QED
  BY <1>6, <1>7, <1>8

LEMMA InitRestores == Init => RestoreInv
<1> SUFFICES ASSUME Init PROVE RestoreInv
  OBVIOUS
<1>1. \A p \in Providers : prows[p] = None /\ Intended(p) = toml[p]
  BY DEF Init, Intended
<1>2. QED
  BY <1>1 DEF RestoreInv, Agrees

(* Wherever the process stops, and however the TOML file was edited since, *)
(* a start brings back the providers that the mutations left, with their   *)
(* destination and credentials, except Lost and Resurrected ones.          *)
THEOREM ProvidersRestoredHolds == Spec => []ProvidersRestored
<1>1. QED
  BY InitKeeps, NextKeeps, InitRestores, NextRestores, AgreesRestores, PTL DEF Spec
=============================================================================
