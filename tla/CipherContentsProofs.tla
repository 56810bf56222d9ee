----------------------- MODULE CipherContentsProofs -----------------------
(***************************************************************************)
(* Proofs about what the commands make of the items Ciphers keeps: what    *)
(* the readers of the vault agree on, what an export gives back, and what  *)
(* an update, a share and an upload leave of an item on the server.        *)
(***************************************************************************)
EXTENDS CiphersProofs, FiniteSetTheorems

USE KeyAssumption, NoneAssumption

-----------------------------------------------------------------------------
(* The readers of the vault.                                               *)

LEMMA PairIs ==
    ASSUME NEW a, NEW b, a # b
    PROVE  IsFiniteSet({a, b}) /\ Cardinality({a, b}) = 2
<1> DEFINE T == {a}
<1>1. IsFiniteSet(T) /\ Cardinality(T) = 1 /\ b \notin T
    BY FS_Singleton
<1>2. {a, b} = T \cup {b}
    OBVIOUS
<1> HIDE DEF T
<1>3. IsFiniteSet(T \cup {b}) /\ Cardinality(T \cup {b}) = Cardinality(T) + 1
    BY <1>1, FS_AddElement
<1> QED BY <1>1, <1>2, <1>3

LEMMA Apart ==
    ASSUME NEW S, IsFiniteSet(S), NEW T, IsFiniteSet(T), S \cap T = {}
    PROVE  Cardinality(S \cup T) = Cardinality(S) + Cardinality(T)
<1>1. Cardinality(S \cup T)
        = Cardinality(S) + Cardinality(T) - Cardinality(S \cap T)
    BY FS_Union, Zenon
<1>2. Cardinality(S \cap T) = 0
    BY FS_EmptySet
<1>3. Cardinality(S) \in Nat /\ Cardinality(T) \in Nat
    BY FS_CardinalityType
<1> QED BY <1>1, <1>2, <1>3

LEMMA LiveItems ==
    ASSUME vault \in Vaults
    PROVE  /\ Ids(vault) = {i \in ItemIds : vault[i] # None}
           /\ Live(vault) \subseteq Ids(vault) /\ Live(vault) \subseteq ItemIds
           /\ \A i \in Ids(vault) : vault[i] \in Item
BY DEF Vaults, Ids, Live

LEMMA RevealedIs ==
    ASSUME NEW item
    PROVE  LET text == Shown(item, "password", Session) IN
           /\ RevealField(item, "password", Session) # None <=> Present(text)
           /\ Present(text) => RevealField(item, "password", Session) = text
BY DEF RevealField, Present

LEMMA EntriesAre ==
    ASSUME vault \in Vaults
    PROVE  LET revealed(i) == RevealField(vault[i], "password", Session) IN
           AuditVaultPasswords(vault, Session)
             = {<<i, revealed(i)>> :
                  i \in {j \in Live(vault) : revealed(j) # None}}
BY RevealedIs DEF AuditVaultPasswords

\* A hash prefix may bring in other texts, but none an entry has.
LEMMA BreachedAre ==
    ASSUME NEW entries
    PROVE  AuditPasswords(entries).pwned = {e \in entries : e[2] \in Breached}
<1> DEFINE listed == UNION {FetchPrefix(PrefixOf[e[2]]) : e \in entries}
<1>1. \A e \in entries : e[2] \in listed <=> e[2] \in Breached
    BY DEF FetchPrefix
<1>2. AuditPasswords(entries).pwned = {e \in entries : e[2] \in listed}
    BY DEF AuditPasswords
<1> QED BY <1>1, <1>2

\* Two entries alike are in one group.
LEMMA GroupedAre ==
    ASSUME NEW S, IsFiniteSet(S), NEW entries,
           \A e \in entries : e[1] \in S,
           NEW d \in entries, NEW e \in entries, d[1] # e[1], d[2] = e[2]
    PROVE  \E group \in AuditPasswords(entries).reused :
               {d[1], e[1]} \subseteq group
<1> DEFINE group == {x[1] : x \in {y \in entries : y[2] = e[2]}}
<1>1. group \subseteq S /\ d[1] \in group /\ e[1] \in group
    OBVIOUS
<1>2. IsFiniteSet({d[1], e[1]}) /\ Cardinality({d[1], e[1]}) = 2
    BY PairIs
<1>3. IsFiniteSet(group) /\ Cardinality(group) \in Nat
    BY <1>1, FS_Subset, FS_CardinalityType
<1>4. Cardinality(group) >= 2
    BY <1>1, <1>2, <1>3, FS_Subset
<1>5. group \in AnalyzeLocal(entries)
    BY <1>4 DEF AnalyzeLocal
<1> QED BY <1>1, <1>5 DEF AuditPasswords

\* An SSH key is loaded or skipped, not both.
LEMMA KeysAreCounted ==
    ASSUME vault \in Vaults
    PROVE  BuildSyncSummary(vault, Session).counts["sshKey"]
             = Cardinality(LoadedKeys(vault, Session))
                 + Cardinality(SkippedKeys(vault, Session))
<1> DEFINE loaded == LoadedKeys(vault, Session)
           skipped == SkippedKeys(vault, Session)
<1>1. \A i : ClassifySshCipher(vault[i], Session)
             \in {"no data", "no private key", "does not open", "loaded"}
    BY DEF ClassifySshCipher
<1>2. SshKeys(vault) = loaded \cup skipped /\ loaded \cap skipped = {}
  <2>1. \A i \in SshKeys(vault) :
          ClassifySshCipher(vault[i], Session)
            \in {"no data", "no private key", "does not open", "loaded"}
      BY <1>1
  <2> QED BY <2>1 DEF LoadedKeys, SkippedKeys
<1>3. IsFiniteSet(loaded) /\ IsFiniteSet(skipped)
  <2>1. loaded \in SUBSET ItemIds /\ skipped \in SUBSET ItemIds
      BY LiveItems DEF LoadedKeys, SkippedKeys, SshKeys
  <2> HIDE DEF loaded, skipped
  <2> QED BY <2>1, CiphersAssumption, FS_Subset
<1>4. BuildSyncSummary(vault, Session).counts["sshKey"]
        = Cardinality(SshKeys(vault))
    BY DEF BuildSyncSummary, SshKeys, Kinds
<1> HIDE DEF loaded, skipped
<1>5. Cardinality(loaded \cup skipped) = Cardinality(loaded) + Cardinality(skipped)
    BY <1>2, <1>3, Apart
<1> QED BY <1>2, <1>4, <1>5 DEF loaded, skipped

LEMMA ReadersAgreeOf == TypeOK => ReadersAgree
<1> SUFFICES ASSUME TypeOK, vault # None PROVE ReadersAgree
    BY DEF ReadersAgree
<1> DEFINE revealed(i) == RevealField(vault[i], "password", Session)
           entries == AuditVaultPasswords(vault, Session)
           audit == AuditPasswords(entries)
           live == {i \in Live(vault) : revealed(i) # None}
<1>1. vault \in Vaults
    BY DEF TypeOK
<1>2. \A i \in Ids(vault) :
        GetCipher(vault[i], Session).hasPassword = (revealed(i) # None)
  <2>1. \A i : GetCipher(vault[i], Session).hasPassword
               = Present(Shown(vault[i], "password", Session))
      BY DEF GetCipher
  <2>2. \A i : (revealed(i) # None) = Present(Shown(vault[i], "password", Session))
      BY DEF RevealField, Present
  <2> QED BY <2>1, <2>2
<1>3. entries = {<<i, revealed(i)>> : i \in live}
    BY <1>1, EntriesAre
<1>4. audit.pwned = {e \in entries : e[2] \in Breached}
    BY BreachedAre
<1>5. ASSUME NEW i \in Live(vault), NEW j \in Live(vault),
             i # j, revealed(i) # None, revealed(i) = revealed(j)
      PROVE  \E group \in audit.reused : {i, j} \subseteq group
  <2> HIDE DEF revealed, entries
  <2>1. <<i, revealed(i)>> \in entries /\ <<j, revealed(j)>> \in entries
      BY <1>3, <1>5
  <2>2. \A e \in entries : e[1] \in ItemIds
      BY <1>1, <1>3, LiveItems
  <2>3. PICK d \in entries, e \in entries :
          d = <<i, revealed(i)>> /\ e = <<j, revealed(j)>>
      BY <2>1
  <2>4. d[1] = i /\ e[1] = j /\ d[2] = e[2]
      BY <1>5, <2>3
  <2>5. IsFiniteSet(ItemIds)
      BY CiphersAssumption
  <2> QED BY <1>5, <2>2, <2>4, <2>5, GroupedAre
<1>6. BuildSyncSummary(vault, Session).counts["sshKey"]
        = Cardinality(LoadedKeys(vault, Session))
            + Cardinality(SkippedKeys(vault, Session))
    BY <1>1, KeysAreCounted
<1> QED BY <1>2, <1>3, <1>4, <1>5, <1>6 DEF ReadersAgree

\* Whatever is in memory, the detail view, the revealed value, the audit, the
\* counts and the agent's key load say the same of it.
THEOREM ReadersAlwaysAgree == Spec => []ReadersAgree
BY TypeCorrect, ReadersAgreeOf, PTL

-----------------------------------------------------------------------------
(* Files: a password, a salt and a cost make a key, and no others do.      *)

\* The key of a file as it was sealed.
KeyOf(password, salt, cost) == <<password, [salt |-> salt, cost |-> cost]>>

LEMMA SealedFile ==
    ASSUME NEW items, NEW sealed
    PROVE  LET header == [salt |-> "drawn", cost |-> CostFloor + 1]
               key == KeyOf(sealed, "drawn", CostFloor + 1)
           IN  SealFile(items, sealed)
                 = [format |-> "ours", header |-> header,
                    auth |-> [under |-> key, header |-> header],
                    key |-> key, data |-> key, vault |-> items]
BY FileAssumption DEF SealFile, DeriveFileKey, KeyOf

\* Only the password it was sealed with opens a file, and only undamaged.
LEMMA OpensUndamaged ==
    ASSUME NEW items, NEW sealed \in FilePasswords, NEW typed \in FilePasswords,
           NEW damage \in Damages
    PROVE  LET file == Damaged(SealFile(items, sealed), damage) IN
           /\ file.vault = items
           /\ OpenFile(file, typed) = "open" <=> typed = sealed /\ damage = "none"
<1> DEFINE header == [salt |-> "drawn", cost |-> CostFloor + 1]
           key == KeyOf(sealed, "drawn", CostFloor + 1)
           whole == [format |-> "ours", header |-> header,
                     auth |-> [under |-> key, header |-> header],
                     key |-> key, data |-> key, vault |-> items]
           file == Damaged(whole, damage)
<1>1. SealFile(items, sealed) = whole
    BY SealedFile
<1>2. CostFloor \in Nat /\ CostFloor > 0 /\ None # "ours" /\ key # None
    BY FileAssumption DEF KeyOf
<1>3. damage \in {"none", "format", "key", "data", "auth", "salt", "weak", "cost"}
    BY FileAssumption
<1>4. DeriveFileKey(typed, header) = KeyOf(typed, "drawn", CostFloor + 1)
    BY <1>2 DEF DeriveFileKey, KeyOf
<1>5. KeyOf(typed, "drawn", CostFloor + 1) # None
    BY <1>2, FileAssumption DEF KeyOf
<1>6. key = KeyOf(typed, "drawn", CostFloor + 1) <=> typed = sealed
    BY DEF KeyOf
<1>7. CASE damage = "none"
  <2>1. file = whole
      BY <1>7 DEF Damaged
  <2> QED BY <1>1, <1>4, <1>5, <1>6, <1>7, <2>1 DEF OpenFile
<1>8. CASE damage = "format"
  <2>1. file.format = None /\ file.vault = items
      BY <1>8 DEF Damaged
  <2> QED BY <1>1, <1>2, <1>8, <2>1 DEF OpenFile
<1>9. CASE damage \in {"key", "data"}
  <2>1. /\ file.format = "ours" /\ file.header = header
        /\ file.auth = [under |-> key, header |-> header]
        /\ file.key = None \/ file.data = None
        /\ file.vault = items
      BY <1>9 DEF Damaged
  <2> QED BY <1>1, <1>4, <1>5, <1>9, <2>1 DEF OpenFile
<1>10. CASE damage = "auth"
  <2>1. /\ file.format = "ours" /\ file.header = header
        /\ file.auth.under = None /\ file.vault = items
      BY <1>10 DEF Damaged
  <2> QED BY <1>1, <1>4, <1>5, <1>10, <2>1 DEF OpenFile
<1>11. CASE damage \in {"salt", "cost"}
  <2> DEFINE other == IF damage = "salt"
                      THEN [salt |-> "other", cost |-> CostFloor + 1]
                      ELSE [salt |-> "drawn", cost |-> CostFloor + 2]
  <2>1. /\ file.format = "ours" /\ file.header = other
        /\ file.auth.under = key /\ file.vault = items
      BY <1>2, <1>11 DEF Damaged
  <2>2. other # header
      BY <1>2
  <2>3. DeriveFileKey(typed, other) = <<typed, other>>
      BY <1>2 DEF DeriveFileKey
  <2>4. <<typed, other>> # key
      BY <2>2 DEF KeyOf
  <2>5. <<typed, other>> # None
      BY <1>2, FileAssumption
  <2> HIDE DEF other, key
  <2> QED BY <1>1, <1>11, <2>1, <2>3, <2>4, <2>5 DEF OpenFile
<1>12. CASE damage = "weak"
  <2>1. /\ file.format = "ours" /\ file.header.cost = 0 /\ file.vault = items
      BY <1>12 DEF Damaged
  <2> QED BY <1>1, <1>2, <1>12, <2>1 DEF OpenFile, DeriveFileKey
<1> QED BY <1>3, <1>7, <1>8, <1>9, <1>10, <1>11, <1>12

-----------------------------------------------------------------------------
(* The password history, one entry after the other.                        *)

\* A set of numbers has a least one: where two functions first differ.
LEMMA Least ==
    ASSUME NEW T \in SUBSET Nat, T # {}
    PROVE  \E x \in T : \A y \in T : ~(y < x)
<1>1. \E x \in T : \A y \in T : <<y, x>> \notin OpToRel(<, Nat)
    BY NatLessThanWellFounded, WFMin
<1> QED BY <1>1 DEF OpToRel

\* Nothing of a history that opens is dropped, and its order is kept.
LEMMA HistoryIs ==
    ASSUME NEW item, NEW ring, item.past \in Seq(Sealed),
           \A n \in 1..Len(item.past) : Opens(item.past[n], CipherKey(item, ring))
    PROVE  PasswordHistory(item, ring)
             = [n \in 1..Len(item.past) |-> item.past[n].text]
<1> DEFINE past == item.past
           key == CipherKey(item, ring)
           after(f, n) == IF n = 0 THEN <<>>
                          ELSE IF Opens(past[n], key)
                               THEN Append(f[n - 1], past[n].text)
                          ELSE f[n - 1]
           Unfolds(f) == f = [n \in 0..Len(past) |-> after(f, n)]
           upTo == CHOOSE f : Unfolds(f)
           texts == [n \in 0..Len(past) |-> [m \in 1..n |-> past[m].text]]
<1>1. PasswordHistory(item, ring) = upTo[Len(past)]
    BY DEF PasswordHistory
<1>2. Len(past) \in Nat /\ \A n \in 1..Len(past) : Opens(past[n], key)
    OBVIOUS
<1> HIDE DEF past, key
\* What any function that unfolds so does.
<1>3. ASSUME NEW f, Unfolds(f)
      PROVE  /\ f[0] = <<>>
             /\ \A n \in 1..Len(past) : f[n] = Append(f[n - 1], past[n].text)
  <2> DEFINE g == [n \in 0..Len(past) |-> after(f, n)]
  <2>1. f = g
      BY <1>3
  <2>2. g[0] = <<>>
      BY <1>2
  <2>3. ASSUME NEW n \in 1..Len(past) PROVE g[n] = Append(f[n - 1], past[n].text)
    <3>1. n \in 0..Len(past) /\ n # 0 /\ Opens(past[n], key)
        BY <1>2
    <3> QED BY <3>1
  <2> HIDE DEF g
  <2> QED BY <2>1, <2>2, <2>3
\* The texts of the first entries do.
<1>4. texts[0] = <<>>
      /\ \A n \in 1..Len(past) : texts[n] = Append(texts[n - 1], past[n].text)
  <2>1. texts[0] = <<>>
      BY <1>2
  <2>2. ASSUME NEW n \in 1..Len(past)
        PROVE  texts[n] = Append(texts[n - 1], past[n].text)
    <3> DEFINE Said == {past[m].text : m \in 1..Len(past)}
    <3>1. /\ texts[n - 1] = [m \in 1..(n - 1) |-> past[m].text]
          /\ texts[n] = [m \in 1..n |-> past[m].text]
        BY <1>2
    <3>2. \A m \in 1..n : past[m].text \in Said
        BY <1>2
    <3> HIDE DEF Said, texts
    <3>3. /\ texts[n - 1] \in Seq(Said) /\ Len(texts[n - 1]) = n - 1
          /\ texts[n] \in Seq(Said) /\ Len(texts[n]) = n
        BY <1>2, <3>1, <3>2
    <3> QED BY <3>1, <3>3
  <2> QED BY <2>1, <2>2
<1>5. Unfolds(texts)
  <2> DEFINE g == [n \in 0..Len(past) |-> after(texts, n)]
  <2>1. ASSUME NEW n \in 0..Len(past) PROVE texts[n] = g[n]
    <3> HIDE DEF texts
    <3>1. CASE n = 0
        BY <1>4, <3>1
    <3>2. CASE n # 0
      <4>1. n \in 1..Len(past)
          BY <1>2, <3>2
      <4> QED BY <1>2, <1>4, <3>2, <4>1
    <3> QED BY <3>1, <3>2
  <2>2. /\ texts = [n \in 0..Len(past) |-> texts[n]]
        /\ g = [n \in 0..Len(past) |-> g[n]]
      OBVIOUS
  <2> HIDE DEF texts, g
  <2>3. texts = g
      BY <2>1, <2>2
  <2> QED BY <2>3 DEF g
<1> HIDE DEF texts, Unfolds
<1>6. Unfolds(upTo)
    BY <1>5
<1> HIDE DEF upTo
\* There is no first number where they differ.
<1>7. \A n \in 0..Len(past) : upTo[n] = texts[n]
  <2> DEFINE Differ == {n \in 0..Len(past) : upTo[n] # texts[n]}
  <2> SUFFICES ASSUME Differ # {} PROVE FALSE
      OBVIOUS
  <2>1. PICK n \in Differ : \A m \in Differ : ~(m < n)
    <3>1. Differ \in SUBSET Nat
        OBVIOUS
    <3> HIDE DEF Differ
    <3> QED BY <3>1, Least
  <2>2. n # 0
      BY <1>3, <1>4, <1>6
  <2>3. n \in 1..Len(past) /\ n - 1 \in 0..Len(past)
      BY <1>2, <2>2
  <2>4. upTo[n - 1] = texts[n - 1]
      BY <1>2, <2>1, <2>3
  <2> QED BY <1>3, <1>4, <1>6, <2>1, <2>3, <2>4
<1>8. Len(past) \in 0..Len(past)
      /\ texts[Len(past)] = [m \in 1..Len(past) |-> past[m].text]
    BY <1>2 DEF texts
<1>9. upTo[Len(past)] = [m \in 1..Len(past) |-> past[m].text]
    BY <1>7, <1>8
<1> QED BY <1>1, <1>9 DEF past

-----------------------------------------------------------------------------
(* Export and import.                                                      *)

\* Everything of a re-encrypted item opens under the vault key and reads as it
\* did.
LEMMA RekeyedItem ==
    ASSUME NEW item \in Item,
           LET from == CipherKey(item, Session) IN
           /\ \A p \in Parts : Opens(item.fields[p], from)
           /\ \A n \in DOMAIN item.past : Opens(item.past[n], from)
    PROVE  LET new == ReencryptCipher(item, Session) IN
           /\ new \in Item /\ new # None
           /\ new.wrap = None /\ new.org = item.org
           /\ new.fields = [p \in Parts |-> Reencrypt(item.fields[p], VaultKey)]
           /\ new.past = RewrappedHistory(item.past, VaultKey)
<1> DEFINE fields == [p \in Parts |-> Reencrypt(item.fields[p], VaultKey)]
           past == RewrappedHistory(item.past, VaultKey)
           new == ReencryptCipher(item, Session)
<1>1. new = [item EXCEPT !.wrap = None, !.fields = fields, !.past = past,
                         !.files = {}]
    BY DEF ReencryptCipher
<1>2. item.fields \in Fields /\ item.past \in Seq(Sealed) /\ VaultKey \in Keys
    BY DEF Item, Keys
<1>3. fields \in Fields
    BY <1>2, ReencryptType DEF Fields, Parts
<1>4. past \in Seq(Sealed)
    BY <1>2, HistoryType
<1> HIDE DEF fields, past, new
<1>5. /\ new \in Item /\ new.wrap = None /\ new.org = item.org
      /\ new.fields = fields /\ new.past = past
    BY <1>1, <1>3, <1>4 DEF Item
<1> QED BY <1>5 DEF fields, past, new

\* Re-encrypting changes no text.
LEMMA RekeyedReads ==
    ASSUME NEW sealed \in Sealed \cup {None}, NEW from, Opens(sealed, from),
           NEW to \in Keys
    PROVE  Decrypt(Reencrypt(sealed, to), to) = Decrypt(sealed, from)
BY ReencryptType DEF Decrypt, Reencrypt, Seal, Opens

LEMMA RekeyedHistory ==
    ASSUME NEW past \in Seq(Sealed), NEW to \in Keys
    PROVE  LET new == RewrappedHistory(past, to) IN
           /\ new \in Seq(Sealed) /\ Len(new) = Len(past)
           /\ \A n \in 1..Len(past) :
                /\ new[n] # None
                /\ new[n].under = to /\ new[n].text = past[n].text
<1> DEFINE new == RewrappedHistory(past, to)
<1>1. new = [n \in 1..Len(past) |-> Reencrypt(past[n], to)]
    BY DEF RewrappedHistory
<1>2. \A n \in 1..Len(past) :
        /\ Reencrypt(past[n], to) \in Sealed
        /\ Reencrypt(past[n], to).under = to
        /\ Reencrypt(past[n], to).text = past[n].text
    BY ReencryptType DEF Reencrypt, Seal
<1>3. new \in Seq(Sealed)
    BY HistoryType
<1> QED BY <1>1, <1>2, <1>3

\* A vault sealed into a file.
Rekeyed(export, folders, collections) ==
    /\ export.items = [i \in Live(vault) |-> ReencryptCipher(vault[i], Session)]
    /\ \A i \in Live(vault) :
         LET from == CipherKey(vault[i], Session) IN
         /\ \A p \in Parts : Opens(vault[i].fields[p], from)
         /\ \A n \in DOMAIN vault[i].past : Opens(vault[i].past[n], from)
    /\ export.folders = [n \in DOMAIN folders |-> Reencrypt(folders[n], VaultKey)]
    /\ \A n \in DOMAIN folders : folders[n].under = UserKey
    /\ DOMAIN export.collections = DOMAIN collections
    /\ \A n \in DOMAIN collections :
         /\ export.collections[n].org = collections[n].org
         /\ collections[n].org \in Held =>
              /\ collections[n].name.under = collections[n].org
              /\ export.collections[n].name
                   = Reencrypt(collections[n].name, VaultKey)

\* A name under another key is still a name.
LEMMA RekeyedNames ==
    ASSUME NEW folders \in Seq(Name), NEW collections \in Seq(Collection)
    PROVE  LET names == [n \in DOMAIN folders |-> Reencrypt(folders[n], VaultKey)]
               listed == [n \in DOMAIN collections |->
                   IF Keyed(collections[n], Session)
                   THEN [collections[n] EXCEPT !.name = Reencrypt(@, VaultKey)]
                   ELSE collections[n]]
           IN  names \in Seq(Name) /\ listed \in Seq(Collection)
<1> DEFINE names == [n \in 1..Len(folders) |-> Reencrypt(folders[n], VaultKey)]
           moved(c) == [c EXCEPT !.name = Reencrypt(c.name, VaultKey)]
           listed == [n \in 1..Len(collections) |->
               IF Keyed(collections[n], Session) THEN moved(collections[n])
               ELSE collections[n]]
<1>1. \A name \in Name : Reencrypt(name, VaultKey) \in Name
  <2>1. VaultKey \in Keys
      BY DEF Keys
  <2> QED BY <2>1, ListsAssumption DEF Reencrypt, Seal, Name
<1>2. \A n \in 1..Len(folders) : Reencrypt(folders[n], VaultKey) \in Name
    BY <1>1
<1>3. names \in Seq(Name)
    BY <1>2
<1>4. \A c \in Collection : moved(c) \in Collection
    BY <1>1 DEF Collection
<1> HIDE DEF moved
<1>5. \A n \in 1..Len(collections) :
        (IF Keyed(collections[n], Session) THEN moved(collections[n])
         ELSE collections[n]) \in Collection
    BY <1>4
<1>6. listed \in Seq(Collection)
    BY <1>5
<1>7. listed = [n \in DOMAIN collections |->
                  IF Keyed(collections[n], Session)
                  THEN [collections[n] EXCEPT !.name = Reencrypt(@, VaultKey)]
                  ELSE collections[n]]
      /\ names = [n \in DOMAIN folders |-> Reencrypt(folders[n], VaultKey)]
    BY DEF moved
<1> QED BY <1>3, <1>6, <1>7

LEMMA ExportIs ==
    ASSUME vault \in Vaults,
           NEW folders \in FolderLists, NEW collections \in CollectionLists
    PROVE  LET export == BuildExport(vault, folders, collections, Session) IN
           IF export = None
           THEN \/ \E i \in Live(vault) :
                     LET from == CipherKey(vault[i], Session) IN
                     \/ \E p \in Parts : ~Opens(vault[i].fields[p], from)
                     \/ \E n \in DOMAIN vault[i].past :
                          ~Opens(vault[i].past[n], from)
                \/ \E n \in DOMAIN folders : folders[n].under # UserKey
                \/ \E n \in DOMAIN collections :
                     /\ collections[n].org \in Held
                     /\ collections[n].name.under # collections[n].org
           ELSE Rekeyed(export, folders, collections)
<1> DEFINE rekeyed == [i \in Live(vault) |-> ReencryptCipher(vault[i], Session)]
           names == [n \in DOMAIN folders |-> Reencrypt(folders[n], VaultKey)]
           listed == [n \in DOMAIN collections |->
               IF Keyed(collections[n], Session)
               THEN [collections[n] EXCEPT !.name = Reencrypt(@, VaultKey)]
               ELSE collections[n]]
           made == [items |-> rekeyed, folders |-> names, collections |-> listed]
           opens(i) == LET from == CipherKey(vault[i], Session) IN
                       /\ \A p \in Parts : Opens(vault[i].fields[p], from)
                       /\ \A n \in DOMAIN vault[i].past :
                            Opens(vault[i].past[n], from)
           export == BuildExport(vault, folders, collections, Session)
<1>1. \A i \in Live(vault) : vault[i] \in Item
    BY LiveItems
<1>2. ASSUME NEW i \in Live(vault)
      PROVE  /\ opens(i) => rekeyed[i] \in Item /\ rekeyed[i] # None
             /\ ~opens(i) => rekeyed[i] = None
    BY <1>1, RekeyedItem DEF ReencryptCipher
<1>3. folders \in Seq(Name) /\ collections \in Seq(Collection)
    BY ListsAssumption
<1>4. /\ \A n \in DOMAIN folders : folders[n] \in Name /\ folders[n] # None
      /\ \A n \in DOMAIN collections :
           /\ collections[n] \in Collection
           /\ collections[n].name \in Name /\ collections[n].name # None
  <2>1. \A c \in Collection : c.name \in Name
      BY DEF Collection
  <2> QED BY <1>3, <2>1, ListsAssumption
<1>5. \A c : Keyed(c, Session) <=> c.org \in Held
    BY DEF Keyed, Session
<1>6. NamesOpen(folders, collections, Session)
        <=> /\ \A n \in DOMAIN folders : folders[n].under = UserKey
            /\ \A n \in DOMAIN collections : collections[n].org \in Held =>
                 collections[n].name.under = collections[n].org
  <2>1. \A n \in DOMAIN folders :
          Opens(folders[n], Session.user) <=> folders[n].under = UserKey
      BY <1>4 DEF Opens, Session
  <2>2. \A n \in DOMAIN collections : collections[n].org \in Held =>
          (Opens(collections[n].name, Session.orgs[collections[n].org])
             <=> collections[n].name.under = collections[n].org)
      BY <1>4 DEF Opens, Session
  <2> QED BY <1>5, <2>1, <2>2 DEF NamesOpen
<1>7. export = IF \/ ~NamesOpen(folders, collections, Session)
                  \/ \E i \in Live(vault) : rekeyed[i] = None
               THEN None ELSE made
    BY DEF BuildExport
<1>8. CASE /\ NamesOpen(folders, collections, Session)
           /\ \A i \in Live(vault) : opens(i)
  <2>1. export = made
      BY <1>2, <1>7, <1>8
  <2>2. rekeyed \in [Live(vault) -> Item] /\ Live(vault) \in SUBSET ItemIds
      BY <1>2, <1>8, LiveItems
  <2>3. names \in Seq(Name) /\ listed \in Seq(Collection)
      BY <1>3, RekeyedNames
  <2> HIDE DEF rekeyed, names, listed
  <2>4. made # None
      BY <2>2, <2>3, CiphersAssumption
  <2> USE DEF rekeyed, names, listed
  <2>5. ASSUME NEW n \in DOMAIN collections
        PROVE  /\ listed[n].org = collections[n].org
               /\ collections[n].org \in Held =>
                    listed[n].name = Reencrypt(collections[n].name, VaultKey)
      BY <1>4, <1>5 DEF Collection
  <2>6. Rekeyed(made, folders, collections)
      BY <1>6, <1>8, <2>5 DEF Rekeyed
  <2> QED BY <2>1, <2>4, <2>6
<1>9. CASE ~(/\ NamesOpen(folders, collections, Session)
             /\ \A i \in Live(vault) : opens(i))
  <2>1. export = None
      BY <1>2, <1>7, <1>9
  <2> HIDE DEF export
  <2>2. CASE ~NamesOpen(folders, collections, Session)
      BY <1>6, <2>1, <2>2 DEF export
  <2>3. CASE \E i \in Live(vault) : ~opens(i)
      BY <2>1, <2>3 DEF export
  <2> QED BY <1>9, <2>2, <2>3
<1> QED BY <1>8, <1>9

\* The vault key opens what is in a file, whatever organisation it was of.
LEMMA FileKey ==
    ASSUME NEW export, NEW i \in Ids(export.items), export.items[i].wrap = None
    PROVE  CipherKey(export.items[i], FileRing(export)) = VaultKey
<1>1. OwningKey(export.items[i], FileRing(export)) = VaultKey
    BY DEF OwningKey, FileRing, OrgKeyMap
<1> QED BY <1>1 DEF CipherKey, ItemKey

\* What an import makes of an item of a file.
LEMMA ImportedItem ==
    ASSUME NEW item \in Item, NEW new \in Item,
           LET from == CipherKey(item, Session) IN
           \A p \in Parts : Opens(item.fields[p], from),
           new.fields = [p \in Parts |-> Reencrypt(item.fields[p], VaultKey)]
    PROVE  /\ CipherToCreateInput(new, VaultKey) \in Input
           /\ CipherToCreateInput(new, VaultKey).fields = ReadsIn(item)
<1> DEFINE from == CipherKey(item, Session)
           fields == [p \in Parts |->
             LET text == Decrypt(new.fields[p], VaultKey) IN
             IF p = "name" \/ Present(text) THEN text ELSE None]
<1>1. item.fields \in Fields /\ VaultKey \in Keys
    BY DEF Item, Keys
<1>2. \A p \in Parts :
        Decrypt(new.fields[p], VaultKey) = Decrypt(item.fields[p], from)
    BY <1>1, RekeyedReads DEF Fields
<1>3. fields = ReadsIn(item)
    BY <1>2 DEF ReadsIn
<1>4. Decrypt(new.fields["name"], VaultKey) # None
  <2>1. "name" \in Parts /\ item.fields["name"] \in Sealed
      BY <1>1 DEF Fields, Parts
  <2>2. new.fields["name"] = Seal(item.fields["name"].text, VaultKey)
      BY <2>1 DEF Reencrypt
  <2>3. item.fields["name"].text \in Texts /\ new.fields["name"] # None
      BY <1>1, <2>1, ReencryptType DEF Sealed
  <2> QED BY <2>2, <2>3 DEF Decrypt, Seal
<1>5. CipherToCreateInput(new, VaultKey)
        = [kind |-> new.kind, org |-> new.org, coll |-> new.coll,
           fields |-> fields, reprompt |-> new.reprompt, whole |-> new.whole]
    BY <1>4 DEF CipherToCreateInput
<1>6. CipherToCreateInput(new, VaultKey) # None
  <2>1. new.fields \in Fields
      BY DEF Item
  <2>2. \A p \in Parts : Decrypt(new.fields[p], VaultKey) \in Texts \cup {None}
      BY <2>1 DEF Decrypt, Fields, Sealed
  <2>3. fields \in [Parts -> Texts \cup {None}] /\ fields["name"] # None
      BY <1>4, <2>2 DEF Parts
  <2> HIDE DEF fields
  <2>4. CipherToCreateInput(new, VaultKey) \in Input
      BY <1>5, <2>3 DEF Item, Input
  <2> QED BY <2>4
<1>7. CipherToCreateInput(new, VaultKey) \in Input
    BY <1>6, InputOfItem
<1> QED BY <1>3, <1>5, <1>7

LEMMA ImportIs ==
    ASSUME vault \in Vaults, NEW export, NEW collections,
           NEW folders, folders \in Seq(Name),
           Rekeyed(export, folders, collections),
           NEW sealed \in FilePasswords, NEW typed \in FilePasswords,
           NEW damage \in Damages
    PROVE  LET got == ImportEncrypted(
                        Damaged(SealFile(export, sealed), damage), typed)
           IN  IF typed = sealed /\ damage = "none"
               THEN /\ DOMAIN got.items = Live(vault)
                    /\ \A i \in Live(vault) :
                         got.items[i].fields = ReadsIn(vault[i])
                    /\ got.folders = [n \in DOMAIN folders |-> folders[n].text]
               ELSE got = None
<1> DEFINE items == export.items
           file == Damaged(SealFile(export, sealed), damage)
           ring == FileRing(export)
           inputs == [i \in Ids(items) |->
             CipherToCreateInput(items[i], CipherKey(items[i], ring))]
           names == [n \in DOMAIN export.folders |->
                       Decrypt(export.folders[n], ring.user)]
           got == ImportEncrypted(file, typed)
<1>1. /\ file.vault = export
      /\ OpenFile(file, typed) = "open" <=> typed = sealed /\ damage = "none"
    BY OpensUndamaged
<1> HIDE DEF file
<1>2. got = IF OpenFile(file, typed) # "open" \/ \E i \in DOMAIN inputs : inputs[i] = None
            THEN None
            ELSE [items |-> [i \in DOMAIN inputs |->
                              [inputs[i] EXCEPT !.org = None, !.coll = None]],
                  folders |-> names]
    BY <1>1 DEF ImportEncrypted
<1>3. ASSUME NEW i \in Live(vault)
      PROVE  /\ vault[i] \in Item
             /\ \A p \in Parts :
                  Opens(vault[i].fields[p], CipherKey(vault[i], Session))
             /\ items[i] \in Item /\ items[i] # None /\ items[i].wrap = None
             /\ items[i].fields
                  = [p \in Parts |-> Reencrypt(vault[i].fields[p], VaultKey)]
  <2>1. /\ vault[i] \in Item /\ items[i] = ReencryptCipher(vault[i], Session)
        /\ LET from == CipherKey(vault[i], Session) IN
           /\ \A p \in Parts : Opens(vault[i].fields[p], from)
           /\ \A n \in DOMAIN vault[i].past : Opens(vault[i].past[n], from)
      BY LiveItems DEF Rekeyed
  <2> HIDE DEF items
  <2> QED BY <2>1, RekeyedItem
<1>4. Ids(items) = Live(vault)
  <2>1. DOMAIN items = Live(vault)
      BY DEF Rekeyed
  <2> QED BY <1>3, <2>1 DEF Ids
<1>5. ASSUME NEW i \in Live(vault)
      PROVE  inputs[i] \in Input /\ inputs[i].fields = ReadsIn(vault[i])
  <2>1. inputs[i] = CipherToCreateInput(items[i], VaultKey)
      BY <1>3, <1>4, FileKey
  <2> HIDE DEF inputs
  <2> QED BY <1>3, <2>1, ImportedItem
<1>6. DOMAIN inputs = Live(vault)
    BY <1>4
<1>0. names = [n \in DOMAIN folders |-> folders[n].text]
  <2>1. /\ DOMAIN export.folders = DOMAIN folders /\ ring.user = VaultKey
        /\ \A n \in DOMAIN folders :
             export.folders[n] = Reencrypt(folders[n], VaultKey)
      BY DEF Rekeyed, FileRing
  <2>2. \A n \in DOMAIN folders :
          Reencrypt(folders[n], VaultKey) = Seal(folders[n].text, VaultKey)
      BY ListsAssumption DEF Reencrypt
  <2>3. \A n \in DOMAIN folders :
          Decrypt(export.folders[n], VaultKey) = folders[n].text
    <3>1. \A text \in Texts : Seal(text, VaultKey) \in Sealed
        BY DEF Seal, Sealed, Keys
    <3>2. \A n \in DOMAIN folders : folders[n].text \in Texts
      <4>1. \A n \in DOMAIN folders : folders[n] \in Name
          OBVIOUS
      <4> QED BY <4>1 DEF Name
    <3> QED BY <2>1, <2>2, <3>1, <3>2 DEF Decrypt, Seal
  <2> QED BY <2>1, <2>3
<1> HIDE DEF inputs, got, names
<1>7. CASE typed = sealed /\ damage = "none"
  <2>1. \A i \in DOMAIN inputs : inputs[i] # None
      BY <1>5, <1>6
  <2>2. got = [items |-> [i \in Live(vault) |->
                            [inputs[i] EXCEPT !.org = None, !.coll = None]],
               folders |-> names]
      BY <1>1, <1>2, <1>6, <1>7, <2>1
  <2>3. \A i \in Live(vault) :
          [inputs[i] EXCEPT !.org = None, !.coll = None].fields = inputs[i].fields
      BY <1>5 DEF Input
  <2>4. /\ DOMAIN got.items = Live(vault) /\ got.folders = names
        /\ \A i \in Live(vault) : got.items[i].fields = inputs[i].fields
      BY <2>2, <2>3
  <2> QED BY <1>0, <1>5, <1>7, <2>4 DEF got, file
<1>8. CASE ~(typed = sealed /\ damage = "none")
    BY <1>1, <1>2, <1>8 DEF got, file
<1> QED BY <1>7, <1>8

LEMMA HistoriesSame ==
    ASSUME vault \in Vaults, NEW export, NEW folders, NEW collections,
           Rekeyed(export, folders, collections), NEW i \in Live(vault)
    PROVE  PasswordHistory(export.items[i], FileRing(export))
             = PasswordHistory(vault[i], Session)
<1> DEFINE item == vault[i]
           new == export.items[i]
<1>1. item \in Item /\ item.past \in Seq(Sealed)
    BY LiveItems DEF Item
<1>2. /\ new = ReencryptCipher(item, Session)
      /\ \A p \in Parts : Opens(item.fields[p], CipherKey(item, Session))
      /\ \A n \in DOMAIN item.past : Opens(item.past[n], CipherKey(item, Session))
    BY DEF Rekeyed
<1>3. /\ new # None /\ new.wrap = None
      /\ new.past = RewrappedHistory(item.past, VaultKey)
    BY <1>1, <1>2, RekeyedItem
<1>4. i \in Ids(export.items)
    BY <1>3 DEF Rekeyed, Ids
<1>5. CipherKey(new, FileRing(export)) = VaultKey
    BY <1>3, <1>4, FileKey
<1>6. VaultKey \in Keys
    BY DEF Keys
<1> HIDE DEF item, new
<1>7. /\ new.past \in Seq(Sealed) /\ Len(new.past) = Len(item.past)
      /\ \A n \in 1..Len(item.past) :
           new.past[n].under = VaultKey /\ new.past[n].text = item.past[n].text
    BY <1>1, <1>3, <1>6, RekeyedHistory
<1>8. PasswordHistory(item, Session)
        = [n \in 1..Len(item.past) |-> item.past[n].text]
    BY <1>1, <1>2, HistoryIs
<1>9. PasswordHistory(new, FileRing(export))
        = [n \in 1..Len(new.past) |-> new.past[n].text]
  <2>1. \A n \in 1..Len(new.past) :
          Opens(new.past[n], CipherKey(new, FileRing(export)))
      BY <1>5, <1>7 DEF Opens
  <2> QED BY <1>7, <2>1, HistoryIs
<1>10. [n \in 1..Len(new.past) |-> new.past[n].text]
         = [n \in 1..Len(item.past) |-> item.past[n].text]
    BY <1>7
<1> QED BY <1>8, <1>9, <1>10 DEF item, new

\* The name of a collection reads as it did.
LEMMA NamesSame ==
    ASSUME NEW export, NEW folders, NEW collections, collections \in Seq(Collection),
           Rekeyed(export, folders, collections),
           NEW n \in DOMAIN collections, collections[n].org \in Held
    PROVE  Decrypt(export.collections[n].name,
                   FileRing(export).orgs[collections[n].org])
             = collections[n].name.text
<1> DEFINE org == collections[n].org
           name == collections[n].name
<1>1. /\ export.collections[n].org = org /\ n \in DOMAIN export.collections
      /\ export.collections[n].name = Reencrypt(name, VaultKey)
    BY DEF Rekeyed
<1>2. name \in Name /\ name # None /\ name.text \in Texts
  <2>1. collections[n] \in Collection
      OBVIOUS
  <2>2. name \in Name
      BY <2>1 DEF Collection
  <2> QED BY <2>2, ListsAssumption DEF Name
<1>3. FileRing(export).orgs[org] = VaultKey
    BY <1>1 DEF FileRing, OrgKeyMap
<1>4. Seal(name.text, VaultKey) \in Sealed
    BY <1>2 DEF Seal, Sealed, Keys
<1> QED BY <1>1, <1>2, <1>3, <1>4 DEF Reencrypt, Decrypt, Seal

LEMMA ExportGivesBackOf == TypeOK => ExportGivesBack
<1> SUFFICES ASSUME TypeOK, vault # None,
                    NEW folders \in FolderLists, NEW collections \in CollectionLists
             PROVE  LET export == BuildExport(vault, folders, collections, Session) IN
                    IF export = None
                    THEN \/ \E i \in Live(vault) :
                              LET key == CipherKey(vault[i], Session) IN
                              \/ \E p \in Parts : ~Opens(vault[i].fields[p], key)
                              \/ \E n \in DOMAIN vault[i].past :
                                   ~Opens(vault[i].past[n], key)
                         \/ \E n \in DOMAIN folders : folders[n].under # UserKey
                         \/ \E n \in DOMAIN collections :
                              /\ collections[n].org \in Held
                              /\ collections[n].name.under # collections[n].org
                    ELSE GivesBack(export, folders, collections)
    BY DEF ExportGivesBack
<1> DEFINE export == BuildExport(vault, folders, collections, Session)
<1>1. vault \in Vaults
    BY DEF TypeOK
<1>2. folders \in Seq(Name) /\ collections \in Seq(Collection)
    BY ListsAssumption
<1>3. ASSUME Rekeyed(export, folders, collections)
      PROVE  GivesBack(export, folders, collections)
  <2> HIDE DEF export
  <2>1. \A sealed, typed \in FilePasswords, damage \in Damages :
          LET got == ImportEncrypted(
                       Damaged(SealFile(export, sealed), damage), typed)
          IN  IF typed = sealed /\ damage = "none"
              THEN /\ DOMAIN got.items = Live(vault)
                   /\ \A i \in Live(vault) :
                        got.items[i].fields = ReadsIn(vault[i])
                   /\ got.folders = [n \in DOMAIN folders |-> folders[n].text]
              ELSE got = None
      BY <1>1, <1>2, <1>3, ImportIs
  <2>2. \A i \in Live(vault) :
          PasswordHistory(export.items[i], FileRing(export))
            = PasswordHistory(vault[i], Session)
      BY <1>1, <1>3, HistoriesSame
  <2>3. \A n \in DOMAIN collections : collections[n].org \in Held =>
          Decrypt(export.collections[n].name,
                  FileRing(export).orgs[collections[n].org])
            = collections[n].name.text
      BY <1>2, <1>3, NamesSame
  <2> QED BY <2>1, <2>2, <2>3 DEF GivesBack
<1> QED BY <1>1, <1>3, ExportIs

\* A file opens to the password it was sealed with and as it was sealed, and
\* then gives back every live item and every name as it read; an item, a
\* folder's name or a collection's that does not open keeps the file from being
\* made, and nothing else does.
THEOREM ExportsGiveBack == Spec => []ExportGivesBack
BY TypeCorrect, ExportGivesBackOf, PTL

-----------------------------------------------------------------------------
(* What an item says, as a matter of its key, its fields and its history.  *)

LEMMA SameRealKey ==
    ASSUME NEW item, NEW other, other.org = item.org, other.wrap = item.wrap
    PROVE  RealKey(other) = RealKey(item)
BY DEF RealKey, CipherKey, OwningKey, ItemKey

LEMMA RealKeyIs ==
    ASSUME NEW item, item.wrap \in Wrap \cup {None}
    PROVE  LET owner == Owned(item.org, Orgs) IN
           /\ item.wrap = None => RealKey(item) = owner
           /\ item.wrap # None /\ item.wrap.under = owner
                => RealKey(item) = item.wrap.key
           /\ item.wrap # None /\ item.wrap.under # owner => RealKey(item) = owner
<1>1. item.wrap # None => item.wrap.key # None
    BY DEF Wrap, Keys
<1> QED BY <1>1, RingKeys DEF RealKey, CipherKey, ItemKey, DecryptCipherKey

\* Where the session has the owner's key it finds the item as anyone does.
LEMMA SessionKey ==
    ASSUME NEW item, item.org \in Held \cup {None}
    PROVE  CipherKey(item, Session) = RealKey(item)
<1>1. Owned(item.org, Held) = Owned(item.org, Orgs)
    BY DEF Owned, Keys
<1> QED BY <1>1, RingKeys DEF RealKey, CipherKey

ReadingOf(fields, past, key, kind, reprompt) ==
    [fields |-> [p \in Parts |-> Decrypt(fields[p], key)],
     past |-> [n \in DOMAIN past |-> Decrypt(past[n], key)],
     kind |-> kind, reprompt |-> reprompt]

LEMMA ReadingIs ==
    ASSUME NEW item
    PROVE  Reading(item) = ReadingOf(item.fields, item.past, RealKey(item),
                                     item.kind, item.reprompt)
BY DEF Reading, ReadingOf

-----------------------------------------------------------------------------
(* An update's body.                                                       *)

\* What replaces an item has its history, after the password that is replaced,
\* as far as the cap lets it.
KeepsHistory(item, new) ==
    LET all == Replacing(item, new) \o item.past IN
    /\ Len(new.past) = IF Len(all) < HistoryCap THEN Len(all) ELSE HistoryCap
    /\ \A n \in DOMAIN new.past : new.past[n] = all[n]

\* That is a matter of the item's key and both items' fields and histories.
LEMMA SameHistory ==
    ASSUME NEW item, NEW other, NEW new, NEW later, KeepsHistory(item, new),
           RealKey(other) = RealKey(item), other.fields = item.fields,
           other.past = item.past, later.fields = new.fields, later.past = new.past
    PROVE  KeepsHistory(other, later)
<1>1. Replacing(other, later) = Replacing(item, new)
    BY DEF Replacing
<1> QED BY <1>1 DEF KeepsHistory

LEMMA UpdatedHistory ==
    ASSUME NEW item \in Item, NEW input \in Input, NEW key \in Keys,
           BuildUpdateCipherBody(input, key, item) # None, RealKey(item) = key
    PROVE  KeepsHistory(item, BuildUpdateCipherBody(input, key, item))
<1> DEFINE body == BuildUpdateCipherBody(input, key, item)
           plain == BuildCipherBody(input, key)
           replaced == Replaced(input, key, item)
           all == replaced \o item.past
           old == Decrypt(item.fields["password"], key)
           typed == input.fields["password"]
<1>1. plain # None /\ body = [plain EXCEPT !.past = Truncate(all)]
    BY DEF BuildUpdateCipherBody
<1>2. plain = [kind |-> input.kind, org |-> input.org, coll |-> input.coll,
               wrap |-> None, fields |-> EncryptFields(input, key),
               past |-> <<>>, reprompt |-> input.reprompt]
    BY <1>1 DEF BuildCipherBody
<1>3. body.past = Truncate(all)
      /\ body.fields["password"] = SealOpt(typed, key)
    BY <1>1, <1>2 DEF EncryptFields, Parts
<1>4. item.past \in Seq(Sealed) /\ replaced \in Seq(Sealed) /\ HistoryCap \in Nat
    BY ReplacedType DEF Item
<1>5. all \in Seq(Sealed) /\ Len(all) \in Nat
    BY <1>4
<1>6. Present(old) => (old # typed <=> Decrypt(SealOpt(typed, key), key) # old)
  <2>1. typed \in Texts \cup {None}
      BY DEF Input, Parts
  <2>2. \A text \in Texts : Seal(text, key) \in Sealed
      BY DEF Seal, Sealed
  <2> HIDE DEF old, typed
  <2> QED BY <2>1, <2>2 DEF SealOpt, Decrypt, Present, Seal
<1>7. Replacing(item, body) = replaced
  <2>1. Replacing(item, body)
          = IF Present(old) /\ Decrypt(SealOpt(typed, key), key) # old
            THEN <<item.fields["password"]>> ELSE <<>>
      BY <1>3 DEF Replacing
  <2>2. replaced = IF Present(old) /\ old # typed
                   THEN <<item.fields["password"]>> ELSE <<>>
      BY DEF Replaced
  <2> QED BY <1>6, <2>1, <2>2
<1> HIDE DEF body, replaced
<1> DEFINE to == IF Len(all) <= HistoryCap THEN Len(all) ELSE HistoryCap
<1>8. body.past = SubSeq(all, 1, to) /\ to \in 0..Len(all)
    BY <1>3, <1>4, <1>5 DEF Truncate
<1> HIDE DEF all
<1>9. Len(body.past) = to /\ \A n \in DOMAIN body.past : body.past[n] = all[n]
    BY <1>5, <1>8
<1>10. to = IF Len(all) < HistoryCap THEN Len(all) ELSE HistoryCap
    BY <1>4, <1>5
<1> QED BY <1>7, <1>9, <1>10 DEF KeepsHistory, all, body

\* An update of an item in memory, by a user whose key opens it.
LEMMA UpdateFitsRead ==
    ASSUME TypeOK, NEW i \in ItemIds, NEW input \in Input,
           UpdateBody(i, input) # None
    PROVE  LET body == UpdateBody(i, input) IN
           /\ body.kind = input.kind
           /\ Known(i) =>
                /\ body.org = vault[i].org /\ body.wrap = vault[i].wrap
                /\ KeepsHistory(vault[i], body)
<1> DEFINE org == IF Known(i) THEN vault[i].org ELSE None
           wrap == IF Known(i) THEN vault[i].wrap ELSE None
           owner == IF org = None THEN UserKey ELSE org
           own == IF wrap = None THEN None ELSE DecryptCipherKey(owner, wrap)
           key == IF own = None THEN owner ELSE own
           bound == [input EXCEPT !.org = org]
           built == IF Known(i) THEN BuildUpdateCipherBody(bound, key, vault[i])
                    ELSE BuildCipherBody(bound, key)
           body == UpdateBody(i, input)
<1>1. /\ org \in Held \cup {None} /\ ~(wrap # None /\ own = None)
      /\ built # None /\ body = [built EXCEPT !.wrap = wrap]
    BY DEF UpdateBody
<1>2. /\ body \in Body /\ body.org = org /\ body.wrap = wrap
      /\ wrap # None => wrap.under = owner
    BY UpdateBodyType
<1>3. wrap \in Wrap \cup {None} /\ (Known(i) => vault[i] \in Item)
    BY KnownItem DEF Item
<1>4. key = (IF wrap = None THEN owner ELSE wrap.key) /\ key \in Keys
    BY <1>1, <1>3 DEF DecryptCipherKey, Wrap, Keys
<1>5. bound \in Input /\ bound.kind = input.kind
    BY <1>1, BoundInput DEF Input
<1>6. owner = Owned(org, Orgs)
    BY <1>1 DEF Owned, Keys
<1> HIDE DEF org, wrap, owner, own, key, bound, body
<1>7. built.kind = bound.kind /\ built \in Body
  <2>1. CASE Known(i)
    <3>1. /\ BuildCipherBody(bound, key) \in Body
          /\ BuildCipherBody(bound, key).kind = bound.kind
        BY <1>1, <1>4, <1>5, <2>1, BuiltBody
           DEF BuildUpdateCipherBody, BuildCipherBody
    <3>2. built.kind = BuildCipherBody(bound, key).kind
        BY <1>1, <2>1, <3>1 DEF BuildUpdateCipherBody, Body
    <3>3. built \in Body
        BY <1>1, <1>3, <1>4, <1>5, <2>1, UpdatedBody
    <3> QED BY <3>1, <3>2, <3>3
  <2>2. CASE ~Known(i)
    <3>1. built = BuildCipherBody(bound, key)
        BY <2>2
    <3>2. built.kind = bound.kind
        BY <1>1, <3>1 DEF BuildCipherBody
    <3> QED BY <1>1, <1>4, <1>5, <3>1, <3>2, BuiltBody
  <2> QED BY <2>1, <2>2
<1>8. body.kind = input.kind /\ body.fields = built.fields /\ body.past = built.past
  <2> HIDE DEF built
  <2> QED BY <1>1, <1>5, <1>7 DEF Body
<1>9. ASSUME Known(i)
      PROVE  /\ body.org = vault[i].org /\ body.wrap = vault[i].wrap
             /\ KeepsHistory(vault[i], body)
  <2>1. vault[i] \in Item /\ org = vault[i].org /\ wrap = vault[i].wrap
      BY <1>3, <1>9 DEF org, wrap
  <2>2. RealKey(vault[i]) = key
      BY <1>2, <1>3, <1>4, <1>6, <2>1, RealKeyIs
  <2>3. built = BuildUpdateCipherBody(bound, key, vault[i])
      BY <1>9
  <2>4. KeepsHistory(vault[i], built)
      BY <1>1, <1>4, <1>5, <2>1, <2>2, <2>3, UpdatedHistory
  <2> HIDE DEF built
  <2>5. KeepsHistory(vault[i], body)
      BY <1>8, <2>4, SameHistory
  <2> QED BY <1>2, <2>1, <2>5
<1> QED BY <1>8, <1>9 DEF body

-----------------------------------------------------------------------------
(* A share's body.                                                         *)

\* A wrapper that does not open would leave the name under a key the share
\* does not try: such a share fails.
LEMMA SharedOpens ==
    ASSUME NEW item \in Item, MemoryOpens(item), item.wrap # None,
           NEW source \in Owners,
           LET own == ItemKey(item, source) IN
           Opens(item.fields["name"], IF own = None THEN source ELSE own)
    PROVE  item.wrap.under = source
<1> SUFFICES ASSUME item.wrap.under # source PROVE FALSE
    OBVIOUS
<1> DEFINE name == item.fields["name"]
<1>1. name # None /\ item.wrap \in Wrap /\ item.wrap.key \in OwnKeys
    BY DEF Item, Fields, Wrap
<1>2. name.under = source
    BY <1>1 DEF ItemKey, DecryptCipherKey, Opens
<1>3. name.under = item.wrap.key
  <2>1. CASE ItemOpens(item)
    <3>1. OpensUnder(item.org, item.wrap, item.fields)
        BY <1>1, <2>1, OpensIs
    <3> QED BY <1>1, <3>1 DEF OpensUnder, Opens, Parts
  <2>2. CASE SharedSince(item)
    <3>1. PICK o \in Orgs \cup {None} : ItemOpens([item EXCEPT !.org = o])
        BY <2>2 DEF SharedSince
    <3> DEFINE before == [item EXCEPT !.org = o]
    <3>2. before.org = o /\ before.wrap = item.wrap /\ before.fields = item.fields
        BY DEF Item
    <3> HIDE DEF before
    <3>3. OpensUnder(o, item.wrap, item.fields)
        BY <1>1, <3>1, <3>2, OpensIs DEF before
    <3> QED BY <1>1, <3>3 DEF OpensUnder, Opens, Parts
  <2> QED BY <2>1, <2>2 DEF MemoryOpens
<1> QED BY <1>1, <1>2, <1>3 DEF Owners

LEMMA SharedReads ==
    ASSUME NEW item \in Item, MemoryOpens(item), item.org \in Held \cup {None},
           NEW coll \in Colls,
           LET source == IF item.org = None THEN UserKey ELSE item.org IN
           BuildShareCipherBody(item, source, OrgOf[coll], coll) # None
    PROVE  LET source == IF item.org = None THEN UserKey ELSE item.org
               body == BuildShareCipherBody(item, source, OrgOf[coll], coll)
           IN  /\ body.kind = item.kind
               /\ Reading(body) = Reading(item)
               /\ item.wrap # None =>
                    body.wrap # None /\ RealKey(body) = RealKey(item)
<1> DEFINE source == IF item.org = None THEN UserKey ELSE item.org
           target == OrgOf[coll]
           own == ItemKey(item, source)
           from == IF own = None THEN source ELSE own
           to == IF own = None THEN target ELSE own
           body == BuildShareCipherBody(item, source, target, coll)
           fields == [p \in Parts |-> Reencrypt(item.fields[p], to)]
           past == RewrappedHistory(item.past, to)
<1>1. /\ \A p \in Parts : Opens(item.fields[p], from)
      /\ \A n \in DOMAIN item.past : Opens(item.past[n], from)
      /\ body = [kind |-> item.kind, org |-> target, coll |-> coll,
                 wrap |-> RewrappedKey(item, own, target),
                 fields |-> fields, past |-> past, reprompt |-> item.reprompt]
    BY DEF BuildShareCipherBody
<1>2. /\ source = Owned(item.org, Orgs) /\ source \in Owners
      /\ target \in Orgs /\ target = Owned(target, Orgs)
    BY DEF Owned, Owners, Keys
<1>3. /\ item.wrap \in Wrap \cup {None} /\ own \in OwnKeys \cup {None}
      /\ item.fields \in Fields /\ item.past \in Seq(Sealed)
    BY ItemKeyType DEF Item
<1>4. item.wrap # None => item.wrap.under = source /\ own = item.wrap.key
                          /\ own # None
  <2>1. "name" \in Parts
      BY DEF Parts
  <2>2. item.wrap # None => item.wrap.under = source
      BY <1>1, <1>2, <2>1, SharedOpens
  <2> QED BY <1>3, <2>2 DEF ItemKey, DecryptCipherKey, Wrap, Keys
<1>5. item.wrap = None => own = None
    BY DEF ItemKey
<1>6. RealKey(item) = from
    BY <1>2, <1>3, <1>4, <1>5, RealKeyIs
<1>7. to \in Keys
    BY <1>2, <1>3 DEF Keys
<1>8. body.org = target
      /\ body.wrap = IF own = None THEN None ELSE [under |-> target, key |-> own]
    BY <1>1 DEF RewrappedKey, EncryptCipherKey
<1> HIDE DEF own, source, target, body, fields, past, from, to
<1>0. own # None => body.wrap \in Wrap /\ body.wrap # None
    BY <1>2, <1>3, <1>8 DEF Wrap, Keys
<1>9. RealKey(body) = to
    BY <1>0, <1>2, <1>3, <1>8, RealKeyIs DEF to
<1>10. \A p \in Parts : Decrypt(fields[p], to) = Decrypt(item.fields[p], from)
  <2>1. \A p \in Parts : item.fields[p] \in Sealed \cup {None}
      BY <1>3 DEF Fields
  <2>2. \A p \in Parts : fields[p] = Reencrypt(item.fields[p], to)
      BY DEF fields
  <2> QED BY <1>1, <1>7, <2>1, <2>2, RekeyedReads
<1>11. DOMAIN past = DOMAIN item.past
       /\ \A n \in DOMAIN item.past :
            Decrypt(past[n], to) = Decrypt(item.past[n], from)
  <2>1. past = [n \in DOMAIN item.past |-> Reencrypt(item.past[n], to)]
      BY DEF past, RewrappedHistory
  <2>2. \A n \in DOMAIN item.past : item.past[n] \in Sealed \cup {None}
      BY <1>3
  <2> QED BY <1>1, <1>7, <2>1, <2>2, RekeyedReads
<1>12. /\ [p \in Parts |-> Decrypt(fields[p], to)]
            = [p \in Parts |-> Decrypt(item.fields[p], from)]
       /\ [n \in DOMAIN past |-> Decrypt(past[n], to)]
            = [n \in DOMAIN item.past |-> Decrypt(item.past[n], from)]
    BY <1>10, <1>11
<1>13. /\ body.fields = fields /\ body.past = past /\ body.kind = item.kind
       /\ body.reprompt = item.reprompt
    BY <1>1
<1>14. Reading(body) = Reading(item)
    BY <1>6, <1>9, <1>12, <1>13, ReadingIs DEF ReadingOf
<1>15. item.wrap # None => to = from /\ body.wrap # None
    BY <1>0, <1>4 DEF to, from
<1> QED BY <1>6, <1>9, <1>13, <1>14, <1>15 DEF body, source, target
-----------------------------------------------------------------------------
(* What a request holds on its way to the server.                          *)

\* An update keeps the owner and the key of the item it was made from, and its
\* history.
UpdateFits(call) ==
    call.at = "update.sent" /\ call.read # None =>
        /\ call.body.org = call.read.org /\ call.body.wrap = call.read.wrap
        /\ KeepsHistory(call.read, call.body)

\* A share is made under another owner, and, unless the item's key is one the
\* server kept of old, reads as the item it was made from does; an item with a
\* key of its own has it still.
ShareFits(l, call) ==
    call.at \in {"share.save", "share.sent"} =>
        /\ call.read # None /\ call.body.org # call.read.org
        /\ call.item \notin l =>
             /\ Reading(call.body) = Reading(call.read)
             /\ call.read.wrap # None =>
                  call.body.wrap # None /\ RealKey(call.body) = RealKey(call.read)

\* A file is under the key the item has in memory.
SlotFits(call) ==
    call.at = "slot.sent" =>
        /\ call.read # None
        /\ call.file.cover = CipherKey(call.read, Session)

CallFits(l, call) == UpdateFits(call) /\ ShareFits(l, call) /\ SlotFits(call)
CallsFit == \A c \in Calls : CallFits(lost, calls[c])

\* An item the server has given out is of this kind, or gone.
OfKind(items, i, kind) == items[i] # None /\ (items[i] # Gone => items[i].kind = kind)
VaultKinds(items, held) ==
    \A i \in ItemIds : held[i] # None => OfKind(items, i, held[i].kind)

CallKinds(items, call) ==
    /\ call.listing # None => VaultKinds(items, call.listing)
    /\ call.answer # None =>
         call.item \in ItemIds /\ OfKind(items, call.item, call.answer.kind)
    /\ call.at \in {"update.sent", "login.sent", "share.save", "share.sent"} =>
         call.item \in ItemIds /\ OfKind(items, call.item, call.body.kind)

\* No item changes its kind, and nobody holds an item for one of another kind.
KindsFit ==
    /\ vault # None => VaultKinds(server, vault)
    /\ cache # None => VaultKinds(server, cache)
    /\ \A c \in Calls : CallKinds(server, calls[c])

LEMMA IdleFits == (\A l : CallFits(l, Idle)) /\ (\A items : CallKinds(items, Idle))
BY DEF Idle, CallFits, UpdateFits, ShareFits, SlotFits, CallKinds

Becomes(c, next) == calls'[c] = next

LEMMA FirstCall ==
    ASSUME TypeOK, NEW c \in Calls, NEW at, NEW item, NEW read, NEW body,
           NEW file, NEW flag,
           Start(c, First(0, at, item, read, body, file, flag))
    PROVE  Becomes(c, First(begun + 1, at, item, read, body, file, flag))
<1>1. [First(0, at, item, read, body, file, flag) EXCEPT !.op = begun + 1]
        = First(begun + 1, at, item, read, body, file, flag)
    BY DEF First
<1>2. calls' = [calls EXCEPT ![c] = First(begun + 1, at, item, read, body, file, flag)]
    BY <1>1, Zenon DEF Start
<1> QED BY <1>2 DEF TypeOK, Becomes

Asked == {"update.sent", "login.sent", "share.save", "share.sent", "slot.sent"}

\* A call for which nothing is asked.
LEMMA PlainFits ==
    ASSUME TypeOK, NEW c \in Calls, NEW next, Begins(c, next),
           calls'[c].at \notin Asked
    PROVE  CallFits(lost, calls'[c]) /\ CallKinds(server, calls'[c])
<1>1. calls'[c] = next /\ next.answer = None /\ next.listing = None
    BY DEF Begins, TypeOK
<1> QED BY <1>1
        DEF CallFits, UpdateFits, ShareFits, SlotFits, CallKinds, Asked

LEMMA UpdateStartFits ==
    ASSUME TypeOK, NEW c \in Calls, NEW i \in ItemIds, UpdateStart(c, i)
    PROVE  CallFits(lost, calls'[c]) /\ CallKinds(server, calls'[c])
<1> DEFINE read == IF Known(i) THEN vault[i] ELSE None
<1>1. PICK input \in Inputs :
        LET body == UpdateBody(i, input) IN
        /\ server[i] # None
        /\ (Served(i) => input.kind = server[i].kind)
        /\ body # None
        /\ Start(c, [Idle EXCEPT !.at = "update.sent", !.item = i,
                                 !.body = body, !.read = read])
    BY DEF UpdateStart
<1> DEFINE body == UpdateBody(i, input)
           next == First(begun + 1, "update.sent", i, read, body, None, FALSE)
<1>2. input \in Input
    BY Sentinels
<1>3. /\ body.kind = input.kind
      /\ Known(i) =>
           /\ body.org = vault[i].org /\ body.wrap = vault[i].wrap
           /\ KeepsHistory(vault[i], body)
    BY <1>1, <1>2, UpdateFitsRead
<1>4. read # None => Known(i) /\ read = vault[i]
    OBVIOUS
<1> HIDE DEF body, read
<1>5. Start(c, First(0, "update.sent", i, read, body, None, FALSE))
    BY <1>1, FirstBodyRead, Zenon DEF body
<1>6. Becomes(c, next)
    BY <1>5, FirstCall
<1>7. /\ next.at = "update.sent" /\ next.read = read /\ next.body = body
      /\ next.item = i /\ next.answer = None /\ next.listing = None
    BY DEF First
<1> HIDE DEF next
<1>8. UpdateFits(next)
    BY <1>3, <1>4, <1>7 DEF UpdateFits
<1>9. ShareFits(lost, next) /\ SlotFits(next)
    BY <1>7 DEF ShareFits, SlotFits
<1>10. CallKinds(server, next)
    BY <1>1, <1>3, <1>7 DEF CallKinds, OfKind, Served
<1> QED BY <1>6, <1>8, <1>9, <1>10 DEF CallFits, Becomes

\* The item opens in memory as a login, and no item changes its kind.
LEMMA UpdateLoginStartFits ==
    ASSUME TypeOK, KindsFit, NEW c \in Calls, NEW i \in ItemIds,
           UpdateLoginStart(c, i)
    PROVE  CallFits(lost, calls'[c]) /\ CallKinds(server, calls'[c])
<1>1. PICK input \in Inputs :
        LET body == BuildLoginCipherBody(input, UserKey) IN
        /\ Known(i) /\ vault[i].kind = "login"
        /\ body # None
        /\ Start(c, [Idle EXCEPT !.at = "login.sent", !.item = i, !.body = body])
    BY DEF UpdateLoginStart
<1> DEFINE body == BuildLoginCipherBody(input, UserKey)
           next == First(begun + 1, "login.sent", i, None, body, None, FALSE)
<1>2. body.kind = "login"
  <2>1. input \in Input
      BY Sentinels
  <2> QED BY <1>1, <2>1 DEF BuildLoginCipherBody, BuildCipherBody, Input
<1>3. OfKind(server, i, "login")
    BY <1>1 DEF KindsFit, VaultKinds, Known
<1> HIDE DEF body
<1>4. Start(c, First(0, "login.sent", i, None, body, None, FALSE))
    BY <1>1, FirstItemBody, Zenon DEF body
<1>5. Becomes(c, next)
    BY <1>4, FirstCall
<1>6. /\ next.at = "login.sent" /\ next.body = body /\ next.item = i
      /\ next.answer = None /\ next.listing = None
    BY DEF First
<1> HIDE DEF next
<1>7. CallFits(lost, next) /\ CallKinds(server, next)
    BY <1>2, <1>3, <1>6 DEF CallFits, UpdateFits, ShareFits, SlotFits, CallKinds
<1> QED BY <1>5, <1>7 DEF Becomes

LEMMA ShareStartFits ==
    ASSUME TypeOK, KeysFit, KindsFit, NEW c \in Calls, NEW i \in ItemIds,
           NEW coll \in Colls, ShareStart(c, i, coll)
    PROVE  CallFits(lost, calls'[c]) /\ CallKinds(server, calls'[c])
<1> DEFINE item == vault[i]
           source == IF item.org = None THEN UserKey ELSE item.org
           body == BuildShareCipherBody(item, source, OrgOf[coll], coll)
           next == First(begun + 1, "share.save", i, item, body, None, FALSE)
<1>1. /\ Known(i) /\ item.org # OrgOf[coll]
      /\ item.org \in Held \cup {None} /\ body # None
      /\ Start(c, [Idle EXCEPT !.at = "share.save", !.item = i,
                               !.read = item, !.body = body])
    BY DEF ShareStart
<1>2. item \in Item /\ item # None /\ (i \notin lost => MemoryOpens(item))
    BY <1>1, KnownItem, InMemory DEF Known, MemoryFits, Orphaned
<1>3. OfKind(server, i, item.kind)
    BY <1>1 DEF KindsFit, VaultKinds, Known
<1>4. body.org = OrgOf[coll] /\ body.kind = item.kind
    BY <1>1 DEF BuildShareCipherBody
<1> HIDE DEF item
<1>5. i \notin lost =>
        /\ Reading(body) = Reading(item)
        /\ item.wrap # None => body.wrap # None /\ RealKey(body) = RealKey(item)
    BY <1>1, <1>2, SharedReads
<1> HIDE DEF body
<1>6. Start(c, First(0, "share.save", i, item, body, None, FALSE))
    BY <1>1, FirstReadBody, Zenon
<1>7. Becomes(c, next)
    BY <1>6, FirstCall
<1>8. /\ next.at = "share.save" /\ next.read = item /\ next.body = body
      /\ next.item = i /\ next.answer = None /\ next.listing = None
    BY DEF First
<1> HIDE DEF next
<1>9. ShareFits(lost, next)
    BY <1>1, <1>2, <1>4, <1>5, <1>8 DEF ShareFits
<1>10. UpdateFits(next) /\ SlotFits(next)
    BY <1>8 DEF UpdateFits, SlotFits
<1>11. CallKinds(server, next)
    BY <1>3, <1>4, <1>8 DEF CallKinds
<1> QED BY <1>7, <1>9, <1>10, <1>11 DEF CallFits, Becomes

LEMMA UploadStartFits ==
    ASSUME TypeOK, NEW c \in Calls, NEW i \in ItemIds, NEW f \in FileIds,
           UploadStart(c, i, f)
    PROVE  CallFits(lost, calls'[c]) /\ CallKinds(server, calls'[c])
<1> DEFINE file == NewFile(f, vault[i], Session)
           next == First(begun + 1, "slot.sent", i, vault[i], None, file, FALSE)
<1>1. /\ Known(i)
      /\ Start(c, [Idle EXCEPT !.at = "slot.sent", !.item = i,
                               !.read = vault[i], !.file = file])
    BY DEF UploadStart
<1>2. file.cover = CipherKey(vault[i], Session) /\ vault[i] # None
    BY <1>1 DEF NewFile, Known
<1> HIDE DEF file
<1>3. Start(c, First(0, "slot.sent", i, vault[i], None, file, FALSE))
    BY <1>1, FirstReadFile, Zenon
<1>4. Becomes(c, next)
    BY <1>3, FirstCall
<1>5. /\ next.at = "slot.sent" /\ next.read = vault[i] /\ next.file = file
      /\ next.answer = None /\ next.listing = None
    BY DEF First
<1> HIDE DEF next
<1>6. CallFits(lost, next) /\ CallKinds(server, next)
    BY <1>2, <1>5 DEF CallFits, UpdateFits, ShareFits, SlotFits, CallKinds
<1> QED BY <1>4, <1>6 DEF Becomes

LEMMA PlainStartAt ==
    ASSUME TypeOK, NEW c \in Calls,
           \/ CreateStart(c) \/ CreateLoginStart(c) \/ SyncStart(c)
           \/ \E i \in ItemIds :
                \/ DuplicateStart(c, i) \/ DeleteStart(c, i)
                \/ \E coll \in Colls : MoveStart(c, i, coll)
                \/ \E flag \in BOOLEAN : FlagStart(c, i, flag)
                \/ Known(i) /\ \E file \in vault[i].files : UnfileStart(c, i, file)
    PROVE  calls'[c].at \notin Asked
<1>1. CASE CreateStart(c) \/ CreateLoginStart(c)
  <2>1. PICK body : Start(c, [Idle EXCEPT !.at = "create.sent", !.body = body])
      BY <1>1 DEF CreateStart, CreateLoginStart
  <2>2. Start(c, First(0, "create.sent", None, None, body, None, FALSE))
      BY <2>1, FirstBody, Zenon
  <2>3. Becomes(c, First(begun + 1, "create.sent", None, None, body, None, FALSE))
      BY <2>2, FirstCall
  <2> QED BY <2>3 DEF Becomes, First, Asked
<1>2. CASE SyncStart(c)
  <2>1. Start(c, First(0, "sync.sent", None, None, None, None, FALSE))
      BY <1>2, FirstPlain, Zenon DEF SyncStart
  <2>2. Becomes(c, First(begun + 1, "sync.sent", None, None, None, None, FALSE))
      BY <2>1, FirstCall
  <2> QED BY <2>2 DEF Becomes, First, Asked
<1>3. ASSUME NEW i \in ItemIds, DuplicateStart(c, i)
      PROVE  calls'[c].at \notin Asked
  <2> DEFINE body == CopyOf(vault[i])
  <2>1. Start(c, First(0, "create.sent", None, None, body, None, FALSE))
      BY <1>3, FirstBody, Zenon DEF DuplicateStart
  <2> HIDE DEF body
  <2>2. Becomes(c, First(begun + 1, "create.sent", None, None, body, None, FALSE))
      BY <2>1, FirstCall
  <2> QED BY <2>2 DEF Becomes, First, Asked
<1>4. ASSUME NEW i \in ItemIds, DeleteStart(c, i)
      PROVE  calls'[c].at \notin Asked
  <2>1. Start(c, First(0, "delete.sent", i, None, None, None, FALSE))
      BY <1>4, FirstItem, Zenon DEF DeleteStart
  <2>2. Becomes(c, First(begun + 1, "delete.sent", i, None, None, None, FALSE))
      BY <2>1, FirstCall
  <2> QED BY <2>2 DEF Becomes, First, Asked
<1>5. ASSUME NEW i \in ItemIds, NEW coll \in Colls, MoveStart(c, i, coll)
      PROVE  calls'[c].at \notin Asked
  <2> DEFINE read == [vault[i] EXCEPT !.coll = coll]
  <2>1. Start(c, First(0, "move.sent", i, read, None, None, FALSE))
      BY <1>5, FirstItemRead, Zenon DEF MoveStart
  <2> HIDE DEF read
  <2>2. Becomes(c, First(begun + 1, "move.sent", i, read, None, None, FALSE))
      BY <2>1, FirstCall
  <2> QED BY <2>2 DEF Becomes, First, Asked
<1>6. ASSUME NEW i \in ItemIds, NEW flag \in BOOLEAN, FlagStart(c, i, flag)
      PROVE  calls'[c].at \notin Asked
  <2>1. Start(c, First(0, "flag.sent", i, None, None, None, flag))
      BY <1>6, FirstItemFlag, Zenon DEF FlagStart
  <2>2. Becomes(c, First(begun + 1, "flag.sent", i, None, None, None, flag))
      BY <2>1, FirstCall
  <2> QED BY <2>2 DEF Becomes, First, Asked
<1>7. ASSUME NEW i \in ItemIds, NEW file \in vault[i].files, UnfileStart(c, i, file)
      PROVE  calls'[c].at \notin Asked
  <2>1. Start(c, First(0, "unfile.sent", i, None, None, file, FALSE))
      BY <1>7, FirstItemFile, Zenon DEF UnfileStart
  <2>2. Becomes(c, First(begun + 1, "unfile.sent", i, None, None, file, FALSE))
      BY <2>1, FirstCall
  <2> QED BY <2>2 DEF Becomes, First, Asked
<1> QED BY <1>1, <1>2, <1>3, <1>4, <1>5, <1>6, <1>7

LEMMA StartsIdle == ASSUME NEW c \in Calls, StartStep(c) PROVE calls[c] = Idle
BY DEF StartStep, CanStart, CreateStart, CreateLoginStart, SyncStart,
   DuplicateStart, UpdateStart, UpdateLoginStart, DeleteStart, ShareStart,
   MoveStart, FlagStart, UploadStart, UnfileStart

LEMMA StartStepFits ==
    ASSUME TypeOK, KeysFit, KindsFit, NEW c \in Calls, StartStep(c)
    PROVE  /\ CallFits(lost, calls'[c]) /\ CallKinds(server, calls'[c])
           /\ calls[c] = Idle /\ UNCHANGED <<server, vault, cache, lost>>
           /\ \A d \in Calls : d # c => calls'[d] = calls[d]
<1>1. PICK next : Begins(c, next)
    BY StartStarted DEF Started
<1>2. UNCHANGED <<server, vault, cache, lost>>
      /\ \A d \in Calls : d # c => calls'[d] = calls[d]
    BY <1>1 DEF Begins, TypeOK
<1>3. calls[c] = Idle
    BY StartsIdle
<1>4. CallFits(lost, calls'[c]) /\ CallKinds(server, calls'[c])
  <2>1. ASSUME NEW i \in ItemIds,
               \/ UpdateStart(c, i) \/ UpdateLoginStart(c, i)
               \/ \E coll \in Colls : ShareStart(c, i, coll)
               \/ \E f \in FileIds : UploadStart(c, i, f)
        PROVE  CallFits(lost, calls'[c]) /\ CallKinds(server, calls'[c])
      BY <2>1, UpdateStartFits, UpdateLoginStartFits, ShareStartFits, UploadStartFits
  <2>2. CASE calls'[c].at \notin Asked
      BY <1>1, <2>2, PlainFits
  <2> QED BY <2>1, <2>2, PlainStartAt DEF StartStep
<1> QED BY <1>2, <1>3, <1>4

\* Where an invocation can go in a step.
Stays(c) == calls'[c] \in {calls[c], Idle}
Moves(c) ==
    Stays(c) \/ StartStep(c) \/ ServerStep(c) \/ ShareSaves(c) \/ ShareMarks(c)

LEMMA CallMoves == ASSUME TypeOK, [Next]_vars, NEW c \in Calls PROVE Moves(c)
<1>1. ASSUME NEW d \in Calls, d # c, NEW next, calls' = [calls EXCEPT ![d] = next]
      PROVE  Stays(c)
    BY <1>1 DEF TypeOK, Stays
<1>2. ASSUME NEW d \in Calls, Return(d) PROVE Stays(c)
    BY <1>2 DEF Return, Goto, TypeOK, Stays
<1>3. ASSUME NEW d \in Calls, d # c, StartStep(d) PROVE Stays(c)
    BY <1>3, StartStarted, <1>1 DEF Started, Begins
<1>4. ASSUME NEW d \in Calls, d # c, ServerStep(d) PROVE Stays(c)
  <2>1. PICK next : calls' = [calls EXCEPT ![d] = next]
      BY <1>4, ServerStepIs DEF ServesOne, Creates, Rewrites, Alters, Deletes,
         Stores, Lists, Advances
  <2> QED BY <1>1, <1>4, <2>1
<1>5. ASSUME NEW d \in Calls, SpliceStep(d) PROVE Stays(c)
  <2>1. Return(d)
      BY <1>5, SpliceStepIs DEF Splices, Splice
  <2> QED BY <1>2, <2>1
<1>6. ASSUME NEW d \in Calls, CreateSplices(d) \/ SyncApplies(d) \/ RequestFails(d)
      PROVE  Stays(c)
    BY <1>2, <1>6 DEF CreateSplices, SyncApplies, RequestFails
<1>7. ASSUME NEW d \in Calls, d # c, ShareSaves(d) \/ ShareMarks(d) PROVE Stays(c)
  <2>1. PICK next : calls' = [calls EXCEPT ![d] = next]
      BY <1>7 DEF ShareSaves, ShareMarks, Goto
  <2> QED BY <1>1, <1>7, <2>1
<1>8. CASE SessionStep
    BY <1>8 DEF SessionStep, LoadsCached, Unlock, Lock, Logout, Crash,
       Stays, Moves
<1>9. CASE OthersAct
    BY <1>9, OthersStep DEF OthersAct, Elsewhere, Stays, Moves
<1>10. CASE UNCHANGED vars
    BY <1>10 DEF vars, Stays, Moves
<1>11. ASSUME NEW d \in Calls,
              \/ StartStep(d) \/ ServerStep(d) \/ SpliceStep(d)
              \/ CreateSplices(d) \/ ShareSaves(d) \/ ShareMarks(d)
              \/ SyncApplies(d) \/ RequestFails(d)
       PROVE  Moves(c)
  <2>1. CASE d = c
      BY <1>5, <1>6, <1>11, <2>1 DEF Moves
  <2>2. CASE d # c
      BY <1>3, <1>4, <1>5, <1>6, <1>7, <1>11, <2>2 DEF Moves
  <2> QED BY <2>1, <2>2
<1> QED BY <1>8, <1>9, <1>10, <1>11, Steps1

\* What the share keeps while its snapshot is saved and marked.
LEMMA ShareLogsCall ==
    ASSUME TypeOK, NEW c \in Calls, ShareSaves(c) \/ ShareMarks(c)
    PROVE  /\ calls[c].at \in {"share.save", "share.mark"}
           /\ calls'[c].at \in {"share.sent", "share.splice"}
           /\ calls[c].at = "share.mark" => calls'[c].at = "share.splice"
           /\ calls'[c].item = calls[c].item /\ calls'[c].read = calls[c].read
           /\ calls'[c].body = calls[c].body /\ calls'[c].answer = calls[c].answer
           /\ calls'[c].listing = calls[c].listing
           /\ \A d \in Calls : d # c => calls'[d] = calls[d]
           /\ UNCHANGED <<server, vault, cache, lost>>
<1>1. PICK to \in {"share.sent", "share.splice"} :
        /\ calls' = [calls EXCEPT ![c] = [calls[c] EXCEPT !.at = to]]
        /\ calls[c].at = IF to = "share.sent" THEN "share.save" ELSE "share.mark"
    BY DEF ShareSaves, ShareMarks, Goto
<1> DEFINE next == [calls[c] EXCEPT !.at = to]
<1>2. /\ next.body = calls[c].body /\ next.answer = calls[c].answer
      /\ next.listing = calls[c].listing /\ next.item = calls[c].item
      /\ next.read = calls[c].read /\ next.at = to
    BY CallType, Moved DEF Steps, Sent
<1>3. calls' = [calls EXCEPT ![c] = next]
    BY <1>1
<1> HIDE DEF next
<1>4. calls'[c] = next /\ \A d \in Calls : d # c => calls'[d] = calls[d]
    BY <1>3 DEF TypeOK
<1> QED BY <1>1, <1>2, <1>4 DEF ShareSaves, ShareMarks

\* A handled request has left the states that are asked for something.
LEMMA ServedCallMoves ==
    ASSUME TypeOK, NEW c \in Calls, ServerStep(c)
    PROVE  calls'[c].at \notin Asked
<1>1. PICK next : \E at \in (Answered \cup {"data.sent"}) : Advances(c, next, at)
    BY ServerStepIs DEF ServesOne, Creates, Rewrites, Alters, Deletes, Stores,
       Lists, Answered
<1>2. calls'[c] = next
    BY <1>1 DEF Advances, TypeOK
<1> QED BY <1>1, <1>2 DEF Advances, Answered, Asked

\* An item the server kept the key of stays one.
LEMMA LostStays == ASSUME TypeOK, [Next]_vars PROVE lost \subseteq lost'
<1>1. ASSUME NEW c \in Calls, StartStep(c) PROVE lost' = lost
    BY <1>1, StartStarted DEF Started, Begins
<1>2. ASSUME NEW c \in Calls, ServerStep(c) PROVE lost \subseteq lost'
    BY <1>2, ServerStepIs DEF ServesOne, Creates, Rewrites, Losing, Alters,
       Deletes, Stores, Lists
<1>3. ASSUME NEW c \in Calls, SpliceStep(c) PROVE lost' = lost
    BY <1>3, SpliceStepIs DEF Splices, Splice
<1>4. ASSUME NEW c \in Calls,
             \/ CreateSplices(c) \/ ShareSaves(c) \/ ShareMarks(c)
             \/ SyncApplies(c) \/ RequestFails(c)
      PROVE  lost' = lost
    BY <1>4 DEF CreateSplices, ShareSaves, ShareMarks, SyncApplies, RequestFails
<1>5. CASE SessionStep
    BY <1>5 DEF SessionStep, LoadsCached, Unlock, Lock, Logout, Crash
<1>6. CASE OthersAct
    BY <1>6, OthersStep DEF OthersAct, Elsewhere
<1>7. CASE UNCHANGED vars
    BY <1>7 DEF vars
<1> QED BY <1>1, <1>2, <1>3, <1>4, <1>5, <1>6, <1>7, Steps1

LEMMA FitsMore ==
    ASSUME NEW l, NEW more, l \subseteq more, NEW call, CallFits(l, call)
    PROVE  CallFits(more, call)
BY DEF CallFits, ShareFits

LEMMA NextCallsFit ==
    TypeOK /\ KeysFit /\ KindsFit /\ CallsFit /\ [Next]_vars => CallsFit'
<1> SUFFICES ASSUME TypeOK, KeysFit, KindsFit, CallsFit, [Next]_vars,
                    NEW c \in Calls
             PROVE  CallFits(lost', calls'[c])
  <2>1. CallsFit' <=> \A c \in Calls : CallFits(lost', calls'[c])
      BY DEF CallsFit, CallFits, UpdateFits, ShareFits, SlotFits, KeepsHistory,
         Replacing, Reading, RealKey, CipherKey
  <2> QED BY <2>1
<1>0. lost \subseteq lost' /\ CallFits(lost, calls[c])
    BY LostStays DEF CallsFit
<1>1. CASE Stays(c)
    BY <1>0, <1>1, IdleFits, FitsMore DEF Stays
<1>2. CASE StartStep(c)
    BY <1>2, StartStepFits
<1>3. CASE ServerStep(c)
    BY <1>3, ServedCallMoves
       DEF CallFits, UpdateFits, ShareFits, SlotFits, Asked
<1>4. CASE ShareSaves(c) \/ ShareMarks(c)
    BY <1>0, <1>4, ShareLogsCall DEF CallFits, UpdateFits, ShareFits, SlotFits
<1> QED BY <1>1, <1>2, <1>3, <1>4, CallMoves DEF Moves

\* What the server gives out keeps its kind.
KeepsKinds(old, new) ==
    \A i \in ItemIds : old[i] # None =>
        new[i] # None /\ (new[i] # Gone => old[i] # Gone /\ new[i].kind = old[i].kind)

LEMMA KindsStay ==
    ASSUME NEW old, NEW new, KeepsKinds(old, new)
    PROVE  /\ \A held : VaultKinds(old, held) => VaultKinds(new, held)
           /\ \A call : CallKinds(old, call) => CallKinds(new, call)
<1>1. \A i \in ItemIds : \A kind : OfKind(old, i, kind) => OfKind(new, i, kind)
    BY DEF KeepsKinds, OfKind
<1>2. \A held : VaultKinds(old, held) => VaultKinds(new, held)
    BY <1>1 DEF VaultKinds
<1> QED BY <1>1, <1>2 DEF CallKinds

LEMMA OneKeepsKinds ==
    ASSUME TypeOK, NEW i \in ItemIds, NEW new,
           server[i] # None => new # None /\ (new # Gone =>
             server[i] # Gone /\ new.kind = server[i].kind),
           server' = [server EXCEPT ![i] = new]
    PROVE  KeepsKinds(server, server')
<1>1. \A j \in ItemIds : server'[j] = IF j = i THEN new ELSE server[j]
    BY DEF TypeOK
<1> QED BY <1>1 DEF KeepsKinds

LEMMA ServerKinds ==
    ASSUME TypeOK, KindsFit, NEW c \in Calls, ServerStep(c)
    PROVE  /\ KeepsKinds(server, server') /\ CallKinds(server', calls'[c])
           /\ UNCHANGED <<vault, cache>>
           /\ \A d \in Calls : d # c => calls'[d] = calls[d]
<1> DEFINE Goal(next) ==
             /\ KeepsKinds(server, server') /\ CallKinds(server', next)
             /\ UNCHANGED <<vault, cache>> /\ calls' = [calls EXCEPT ![c] = next]
<1>1. CallKinds(server, calls[c])
    BY DEF KindsFit
<1>2. ASSUME NEW i \in ItemIds, NEW new, NEW next, Creates(c, i, new, next)
      PROVE  Goal(next)
  <2>1. KeepsKinds(server, server')
      BY <1>2, OneKeepsKinds DEF Creates
  <2>2. CallKinds(server', calls[c]) /\ server'[i] = new /\ new # None
      BY <1>1, <1>2, <2>1, KindsStay DEF Creates, TypeOK
  <2>3. CallKinds(server', next)
      BY <1>2, <2>2 DEF Creates, Advances, CallKinds, OfKind
  <2> QED BY <1>2, <2>1, <2>3 DEF Creates, Advances
<1>3. ASSUME NEW i \in ItemIds, NEW new, NEW next, Rewrites(c, i, new, next)
      PROVE  Goal(next)
  <2>1. OfKind(server, i, new.kind) /\ new # None
      BY <1>1, <1>3, Sentinels DEF Rewrites, Addressed, CallKinds
  <2>2. KeepsKinds(server, server')
      BY <1>3, <2>1, OneKeepsKinds DEF Rewrites, Addressed, Served, OfKind
  <2>3. CallKinds(server', calls[c]) /\ server'[i] = new
      BY <1>1, <1>3, <2>2, KindsStay DEF Rewrites, TypeOK
  <2>4. CallKinds(server', next)
      BY <1>3, <2>1, <2>3 DEF Rewrites, Advances, CallKinds, OfKind, Addressed
  <2> QED BY <1>3, <2>2, <2>4 DEF Rewrites, Advances
<1>4. ASSUME NEW i \in ItemIds, NEW new, NEW next, Alters(c, i, new, next)
      PROVE  Goal(next)
  <2>1. KeepsKinds(server, server') /\ new # None
      BY <1>4, OneKeepsKinds, Sentinels DEF Alters, Addressed, Served
  <2>2. CallKinds(server', calls[c]) /\ server'[i] = new
      BY <1>1, <1>4, <2>1, KindsStay DEF Alters, TypeOK
  <2>3. CallKinds(server', next)
      BY <1>4, <2>1, <2>2 DEF Alters, Advances, CallKinds, OfKind, Addressed
  <2> QED BY <1>4, <2>1, <2>3 DEF Alters, Advances
<1>5. ASSUME NEW i \in ItemIds, NEW next, Deletes(c, i, next)
      PROVE  Goal(next)
  <2>1. KeepsKinds(server, server')
      BY <1>5, OneKeepsKinds, Sentinels DEF Deletes
  <2>2. CallKinds(server', calls[c])
      BY <1>1, <2>1, KindsStay
  <2>3. CallKinds(server', next)
      BY <1>5, <2>2 DEF Deletes, Advances, CallKinds, Addressed
  <2> QED BY <1>5, <2>1, <2>3 DEF Deletes, Advances
<1>6. ASSUME NEW i \in ItemIds, NEW next, Stores(c, i, next)
      PROVE  Goal(next)
  <2>1. CallKinds(server', next)
      BY <1>1, <1>6 DEF Stores, Advances, CallKinds, Addressed
  <2> QED BY <1>6, <2>1 DEF Stores, Advances, KeepsKinds
<1>7. ASSUME NEW next, Lists(c, next) PROVE Goal(next)
  <2>1. VaultKinds(server, Listing)
      BY DEF VaultKinds, Listing, OfKind, Served
  <2>2. CallKinds(server', next)
      BY <1>1, <1>7, <2>1 DEF Lists, Advances, CallKinds
  <2> QED BY <1>7, <2>2 DEF Lists, Advances, KeepsKinds
<1>8. PICK next : Goal(next)
  <2> HIDE DEF Goal
  <2> QED BY <1>2, <1>3, <1>4, <1>5, <1>6, <1>7, ServerStepIs DEF ServesOne
<1> QED BY <1>8 DEF TypeOK

\* An answer is spliced in as an item of its own kind.
LEMMA SpliceKinds ==
    ASSUME TypeOK, KindsFit, NEW c \in Calls, SpliceStep(c) \/ CreateSplices(c)
    PROVE  /\ vault' # None => VaultKinds(server, vault')
           /\ UNCHANGED <<server, cache>> /\ Return(c)
<1>1. CallKinds(server, calls[c])
    BY DEF KindsFit
<1>2. ASSUME NEW i \in ItemIds, NEW new, Known(i), vault \in Vaults,
             vault' = [vault EXCEPT ![i] = new],
             new # None => OfKind(server, i, new.kind)
      PROVE  VaultKinds(server, vault')
  <2>1. \A j \in ItemIds : vault'[j] = IF j = i THEN new ELSE vault[j]
      BY <1>2 DEF Vaults
  <2> QED BY <1>2, <2>1 DEF KindsFit, VaultKinds, Known
<1>3. CASE SpliceStep(c)
  <2>0. PICK i \in ItemIds : \E new : Splices(c, i, new)
      BY <1>3, SpliceStepIs
  <2>1. PICK new : Splices(c, i, new)
      BY <2>0
  <2>2. UNCHANGED <<server, cache>> /\ Return(c)
      BY <2>1 DEF Splices, Splice, disk
  <2>3. ASSUME Known(i), new # None PROVE OfKind(server, i, new.kind)
    <3>1. /\ i = calls[c].item /\ vault[i] # None
          /\ Adopts(c, new) \/ new.kind = vault[i].kind
        BY <2>1, <2>3 DEF Splices, Shares, Touches, Known
    <3>2. OfKind(server, i, vault[i].kind)
        BY <2>3, <3>1 DEF KindsFit, VaultKinds, Known
    <3> QED BY <1>1, <2>3, <3>1, <3>2 DEF Adopts, CallKinds
  <2>4. CASE ~Known(i)
      BY <2>1, <2>2, <2>4 DEF Splices, Splice, KindsFit
  <2>5. CASE Known(i)
    <3>1. vault' = [vault EXCEPT ![i] = new] /\ vault \in Vaults
        BY <2>1, <2>5 DEF Splices, Splice
    <3> QED BY <1>2, <2>2, <2>3, <2>5, <3>1
  <2> QED BY <2>4, <2>5
<1>4. CASE CreateSplices(c)
  <2> DEFINE i == calls[c].item
  <2>1. /\ UNCHANGED <<server, cache>> /\ Return(c)
        /\ vault' = IF vault = None \/ Known(i) THEN vault
                    ELSE [vault EXCEPT ![i] = calls[c].answer]
      BY <1>4 DEF CreateSplices, disk
  <2>2. i \in ItemIds /\ OfKind(server, i, calls[c].answer.kind)
      BY <1>1, <1>4, CallType DEF CreateSplices, Holds, CallKinds
  <2>3. CASE vault = None \/ Known(i)
      BY <2>1, <2>3 DEF KindsFit
  <2>4. CASE vault # None /\ ~Known(i)
    <3>1. \A j \in ItemIds :
            vault'[j] = IF j = i THEN calls[c].answer ELSE vault[j]
        BY <2>1, <2>4 DEF TypeOK, Vaults
    <3> QED BY <2>1, <2>2, <2>4, <3>1 DEF KindsFit, VaultKinds
  <2> QED BY <2>3, <2>4
<1> QED BY <1>3, <1>4

LEMMA OthersKinds ==
    ASSUME TypeOK, OthersAct
    PROVE  KeepsKinds(server, server') /\ UNCHANGED <<vault, cache, calls>>
<1>1. PICK i \in ItemIds, item \in Item :
        Elsewhere(i, item) /\ Served(i) /\ item.kind = server[i].kind
  <2>1. ASSUME NEW i \in ItemIds, NEW text \in Texts, OtherClientEdits(i, text)
        PROVE  \E item \in Item :
                 Elsewhere(i, item) /\ Served(i) /\ item.kind = server[i].kind
      BY <2>1, OthersStep, EditedType
  <2>2. ASSUME NEW i \in ItemIds, NEW own \in OwnKeys, OtherClientWraps(i, own)
        PROVE  \E item \in Item :
                 Elsewhere(i, item) /\ Served(i) /\ item.kind = server[i].kind
    <3>1. Served(i) /\ server[i] \in Item /\ Elsewhere(i, Wrapped(server[i], own))
        BY <2>2, OthersStep
    <3>2. Wrapped(server[i], own) \in Item
          /\ Wrapped(server[i], own).kind = server[i].kind
        BY <3>1, WrappedType
    <3> QED BY <3>1, <3>2
  <2> QED BY <2>1, <2>2 DEF OthersAct
<1>2. KeepsKinds(server, server')
    BY <1>1, OneKeepsKinds, Sentinels DEF Elsewhere, Served
<1> QED BY <1>1, <1>2 DEF Elsewhere, disk

\* The other calls, and those that return, hold what they held.
LEMMA CallsKinds ==
    ASSUME TypeOK, KindsFit, KeepsKinds(server, server'),
           vault' # None => VaultKinds(server', vault'),
           cache' # None => VaultKinds(server', cache'),
           \A c \in Calls :
               Stays(c) \/ CallKinds(server', calls'[c])
    PROVE  KindsFit'
<1>1. \A c \in Calls : CallKinds(server', calls[c])
    BY KindsStay DEF KindsFit
<1>2. \A c \in Calls : CallKinds(server', calls'[c])
    BY <1>1, IdleFits DEF Stays
<1> QED BY <1>2 DEF KindsFit

LEMMA NextKindsFit ==
    TypeOK /\ KeysFit /\ KindsFit /\ [Next]_vars => KindsFit'
<1> SUFFICES ASSUME TypeOK, KeysFit, KindsFit, [Next]_vars PROVE KindsFit'
    OBVIOUS
<1>1. ASSUME NEW c \in Calls, ServerStep(c) PROVE KindsFit'
  <2>1. /\ KeepsKinds(server, server') /\ CallKinds(server', calls'[c])
        /\ UNCHANGED <<vault, cache>>
        /\ \A d \in Calls : d # c => calls'[d] = calls[d]
      BY <1>1, ServerKinds
  <2>2. /\ vault' # None => VaultKinds(server', vault')
        /\ cache' # None => VaultKinds(server', cache')
      BY <2>1, KindsStay DEF KindsFit
  <2> QED BY <2>1, <2>2, CallsKinds DEF Stays
<1>2. ASSUME NEW c \in Calls, StartStep(c) PROVE KindsFit'
  <2>1. /\ CallKinds(server, calls'[c]) /\ UNCHANGED <<server, vault, cache>>
        /\ \A d \in Calls : d # c => calls'[d] = calls[d]
      BY <1>2, StartStepFits
  <2> QED BY <2>1, CallsKinds DEF Stays, KeepsKinds, KindsFit
<1>3. ASSUME NEW c \in Calls, Return(c), UNCHANGED server,
             vault' # None => VaultKinds(server, vault'),
             cache' # None => VaultKinds(server, cache')
      PROVE  KindsFit'
    BY <1>3, CallsKinds DEF Stays, KeepsKinds, Return, Goto, TypeOK
<1>4. ASSUME NEW c \in Calls, SpliceStep(c) \/ CreateSplices(c) PROVE KindsFit'
    BY <1>3, <1>4, SpliceKinds DEF KindsFit
<1>5. ASSUME NEW c \in Calls, SyncApplies(c) PROVE KindsFit'
  <2>1. VaultKinds(server, calls[c].listing)
      BY <1>5, CallType DEF SyncApplies, Holds, KindsFit, CallKinds
  <2> QED BY <1>3, <1>5, <2>1 DEF SyncApplies, KindsFit
<1>6. ASSUME NEW c \in Calls, RequestFails(c) PROVE KindsFit'
    BY <1>3, <1>6 DEF RequestFails, disk, KindsFit
<1>7. ASSUME NEW c \in Calls, ShareSaves(c) \/ ShareMarks(c) PROVE KindsFit'
  <2>1. CallKinds(server, calls[c])
      BY DEF KindsFit
  <2>2. CallKinds(server, calls'[c]) /\ UNCHANGED <<server, vault, cache>>
        /\ \A d \in Calls : d # c => calls'[d] = calls[d]
      BY <1>7, <2>1, ShareLogsCall DEF CallKinds
  <2> QED BY <2>2, CallsKinds DEF Stays, KeepsKinds, KindsFit
<1>8. CASE SessionStep
  <2>1. /\ UNCHANGED server /\ vault' \in {None, cache} /\ cache' \in {None, cache}
        /\ \A c \in Calls : Stays(c)
      BY <1>8 DEF SessionStep, LoadsCached, Unlock, Lock, Logout, Crash, disk, Stays
  <2> QED BY <2>1, CallsKinds DEF KeepsKinds, KindsFit
<1>9. CASE OthersAct
  <2>1. KeepsKinds(server, server') /\ UNCHANGED <<vault, cache, calls>>
      BY <1>9, OthersKinds
  <2> QED BY <2>1, KindsStay, CallsKinds DEF Stays, KindsFit
<1>10. CASE UNCHANGED vars
    BY <1>10 DEF vars, disk, KindsFit
<1> QED BY <1>1, <1>2, <1>4, <1>5, <1>6, <1>7, <1>8, <1>9, <1>10, Steps1

LEMMA InitFits == Init => CallsFit /\ KindsFit
<1> SUFFICES ASSUME Init PROVE CallsFit /\ KindsFit
    OBVIOUS
<1>1. \A c \in Calls : calls[c] = Idle
    BY DEF Init
<1>2. VaultKinds(server, server)
    BY DEF VaultKinds, OfKind
<1> QED BY <1>1, <1>2, IdleFits DEF Init, CallsFit, KindsFit

\* What the three theorems that follow rest on.
ContentsInv == TypeOK /\ KeysFit /\ CallsFit /\ KindsFit

LEMMA ContentsAlwaysFit == Spec => []ContentsInv
<1>1. Init => ContentsInv
    BY InitType, InitKeys, InitFits DEF ContentsInv
<1>2. ContentsInv /\ [Next]_vars => ContentsInv'
    BY NextType, NextKeys, NextCallsFit, NextKindsFit DEF ContentsInv
<1> QED BY <1>1, <1>2, PTL DEF Spec

-----------------------------------------------------------------------------
(* What the server makes of a request built from an item as it has it.     *)

\* A handled request is an update, a share or a slot: the item becomes what the
\* body says, or gains the file.
Becoming(c, i, new) ==
    /\ calls[c].at \in {"update.sent", "share.sent"}
    /\ new.org = calls[c].body.org /\ new.wrap = calls[c].body.wrap
    /\ new.fields = calls[c].body.fields /\ new.past = calls[c].body.past
    /\ new.kind = calls[c].body.kind /\ new.reprompt = calls[c].body.reprompt
    /\ new.files = server[i].files
Gaining(c, i, new) ==
    /\ calls[c].at = "slot.sent"
    /\ new.org = server[i].org /\ new.wrap = server[i].wrap
    /\ new.files = server[i].files \cup {calls[c].file}

\* An item read up to date has a key of its own in memory if the server's has.
LEMMA SameWraps ==
    ASSUME NEW read \in Item, NEW item \in Item, ItemOpens(item),
           RealKey(read) = RealKey(item), read.wrap = None
    PROVE  item.wrap = None
<1>1. item.wrap \in Wrap \cup {None}
    BY DEF Item
<1>2. item.wrap # None => item.wrap.under = Owned(item.org, Orgs)
    BY <1>1, OpensIs DEF OpensUnder
<1>3. item.wrap # None => RealKey(item) \in OwnKeys
    BY <1>1, <1>2, RealKeyIs DEF Wrap
<1>4. RealKey(read) \in Owners
    BY OwnedIsKey, RealKeyIs
<1> QED BY <1>3, <1>4 DEF Owners

LEMMA HandledBy ==
    ASSUME ContentsInv, [Next]_vars, NEW c \in Calls,
           NEW from \in {"update.sent", "share.sent", "slot.sent"}, Handles(c, from)
    PROVE  LET i == calls[c].item IN
           /\ i \in ItemIds /\ Served(i) /\ i \notin lost /\ server[i] \in Item
           /\ calls[c].at = from /\ calls[c].read \in Item
           /\ server'[i] \in Item
           /\ Becoming(c, i, server'[i]) \/ Gaining(c, i, server'[i])
<1>1. /\ calls[c].at = from /\ calls'[c] \notin {calls[c], Idle}
      /\ calls[c].read \in Item /\ calls[c].item \notin lost
      /\ RealKey(calls[c].read) = RealKey(server[calls[c].item])
    BY CallType DEF ContentsInv, Handles, Contents
<1>2. ~StartStep(c)
    BY <1>1, StartsIdle DEF Idle
<1>3. ~(ShareSaves(c) \/ ShareMarks(c))
    BY <1>1 DEF ShareSaves, ShareMarks
<1>4. ServerStep(c)
    BY <1>1, <1>2, <1>3, CallMoves DEF ContentsInv, Moves, Stays
<1>5. PICK i \in ItemIds :
        \E new, next : Rewrites(c, i, new, next) \/ Alters(c, i, new, next)
    BY <1>1, <1>4, ServerStepIs
       DEF ContentsInv, ServesOne, Creates, Deletes, Stores, Lists
<1>6. PICK new, next : Rewrites(c, i, new, next) \/ Alters(c, i, new, next)
    BY <1>5
<1>7. i = calls[c].item /\ Served(i) /\ server[i] \in Item /\ new \in Item
    BY <1>6 DEF Rewrites, Alters, Addressed
<1>8. server'[i] = new
    BY <1>6 DEF ContentsInv, Rewrites, Alters, TypeOK
\* A body without a key is of an item without one.
<1>9. ASSUME Rewrites(c, i, new, next)
      PROVE  new.wrap = calls[c].body.wrap
  <2>1. calls[c].at \in {"update.sent", "share.sent"}
        /\ new.wrap \in KeptWraps(server[i], calls[c].body)
      BY <1>1, <1>9 DEF Rewrites
  <2>2. CASE calls[c].body.wrap # None
      BY <2>1, <2>2 DEF KeptWraps
  <2>3. CASE calls[c].body.wrap = None
    <3>1. calls[c].read.wrap = None
      <4>1. UpdateFits(calls[c]) /\ ShareFits(lost, calls[c])
          BY DEF ContentsInv, CallsFit, CallFits
      <4> QED BY <1>1, <2>1, <2>3, <4>1 DEF UpdateFits, ShareFits
    <3>2. ItemOpens(server[i])
        BY <1>1, <1>7 DEF ContentsInv, KeysFit, ServerFits, Fits, Orphaned
    <3>3. server[i].wrap = None
        BY <1>1, <1>7, <3>1, <3>2, SameWraps
    <3> QED BY <2>1, <2>3, <3>3 DEF KeptWraps
  <2> QED BY <2>2, <2>3
<1>10. Becoming(c, i, new) \/ Gaining(c, i, new)
    BY <1>1, <1>6, <1>9 DEF Rewrites, Alters, Becoming, Gaining
<1> QED BY <1>1, <1>7, <1>8, <1>10

\* A save of an item memory had up to date leaves it readable under its key, with
\* the history it had after the password that is replaced: of these, the newest that
\* the cap has room for, whatever other commands and clients do between the
\* reading and the answer (build_update_cipher_body).
THEOREM NoPasswordIsLost == Spec => PasswordsAreKept
<1>1. ASSUME ContentsInv, [Next]_vars, NEW c \in Calls, Handles(c, "update.sent")
      PROVE  LET i == calls[c].item
                 all == Replacing(server[i], server'[i]) \o server[i].past
                 kept == server'[i].past
             IN  /\ ItemOpens(server'[i]) /\ RealKey(server'[i]) = RealKey(server[i])
                 /\ Len(kept) = IF Len(all) < HistoryCap THEN Len(all)
                                ELSE HistoryCap
                 /\ \A n \in DOMAIN kept : kept[n] = all[n]
  <2> DEFINE i == calls[c].item
             read == calls[c].read
             body == calls[c].body
             new == server'[i]
  <2>1. calls[c].at = "update.sent" /\ read # None /\ Becoming(c, i, new)
      BY <1>1, HandledBy DEF Handles, Gaining
  <2>2. /\ body.org = read.org /\ body.wrap = read.wrap
        /\ KeepsHistory(read, body)
      BY <1>1, <2>1 DEF ContentsInv, CallsFit, CallFits, UpdateFits
  <2>3. RealKey(read) = RealKey(server[i]) /\ read.fields = server[i].fields
        /\ read.past = server[i].past
      BY <1>1 DEF Handles, Contents
  <2>4. /\ new.org = body.org /\ new.wrap = body.wrap
        /\ new.fields = body.fields /\ new.past = body.past
      BY <2>1 DEF Becoming
  <2>0. ItemOpens(body) /\ body.wrap \in Wrap \cup {None}
    <3>1. body # None /\ body \in Body
        BY <1>1, <2>1, CallType DEF ContentsInv, Holds
    <3> QED BY <1>1, <3>1 DEF ContentsInv, KeysFit, CallsOpen, CallOpens, Body
  <2> HIDE DEF read, body, new, i
  <2>5. ItemOpens(new) /\ RealKey(new) = RealKey(server[i])
      BY <2>0, <2>2, <2>3, <2>4, SameOpens, SameRealKey
  <2>6. KeepsHistory(server[i], new)
      BY <2>2, <2>3, <2>4, SameHistory
  <2> QED BY <2>5, <2>6 DEF KeepsHistory, new, i
<1>2. ContentsInv /\ [Next]_vars =>
        [\A c \in Calls : Handles(c, "update.sent") =>
           LET i == calls[c].item
               all == Replacing(server[i], server'[i]) \o server[i].past
               kept == server'[i].past
           IN  /\ ItemOpens(server'[i]) /\ RealKey(server'[i]) = RealKey(server[i])
               /\ Len(kept) = IF Len(all) < HistoryCap THEN Len(all)
                              ELSE HistoryCap
               /\ \A n \in DOMAIN kept : kept[n] = all[n]]_vars
    BY <1>1
<1> QED BY <1>2, ContentsAlwaysFit, PTL DEF Spec, PasswordsAreKept

\* A share of an item memory had up to date changes who may read it, and what it
\* says, its history, its kind and its reprompt read the same for the new owner
\* (build_share_cipher_body).
THEOREM SharesReadTheSame == Spec => ShareKeepsContents
<1>1. ASSUME ContentsInv, [Next]_vars, NEW c \in Calls, Handles(c, "share.sent")
      PROVE  LET i == calls[c].item IN
             /\ Reading([server[i] EXCEPT !.reprompt = calls[c].read.reprompt])
                  = Reading(server'[i])
             /\ server'[i].org # server[i].org
  <2> DEFINE i == calls[c].item
             read == calls[c].read
             body == calls[c].body
             new == server'[i]
             old == [server[i] EXCEPT !.reprompt = read.reprompt]
  <2>1. /\ calls[c].at = "share.sent" /\ Becoming(c, i, new)
        /\ i \in ItemIds /\ i \notin lost /\ Served(i) /\ server[i] \in Item
      BY <1>1, HandledBy DEF Gaining
  <2>2. Reading(body) = Reading(read) /\ body.org # read.org
      BY <1>1, <2>1 DEF ContentsInv, CallsFit, CallFits, ShareFits
  <2>3. body.kind = read.kind
      BY <2>2, ReadingIs DEF ReadingOf
  <2>4. server[i].kind = body.kind
      BY <1>1, <2>1 DEF ContentsInv, KindsFit, CallKinds, OfKind, Served
  <2>5. /\ RealKey(read) = RealKey(server[i]) /\ read.org = server[i].org
        /\ read.fields = server[i].fields /\ read.past = server[i].past
      BY <1>1 DEF Handles, Contents
  <2>6. /\ old.fields = read.fields /\ old.past = read.past /\ old.kind = read.kind
        /\ old.reprompt = read.reprompt
        /\ old.org = server[i].org /\ old.wrap = server[i].wrap
      BY <2>1, <2>3, <2>4, <2>5 DEF Item
  <2>7. new.fields = body.fields /\ new.past = body.past /\ new.kind = body.kind
        /\ new.reprompt = body.reprompt /\ new.org = body.org
        /\ new.wrap = body.wrap
      BY <2>1 DEF Becoming
  <2> HIDE DEF old, new, body, read
  <2>8. RealKey(old) = RealKey(read) /\ RealKey(new) = RealKey(body)
      BY <2>5, <2>6, <2>7, SameRealKey
  <2>9. Reading(old) = Reading(read) /\ Reading(new) = Reading(body)
      BY <2>6, <2>7, <2>8, ReadingIs
  <2> QED BY <2>2, <2>5, <2>7, <2>9 DEF old, new, read
<1>2. ContentsInv /\ [Next]_vars =>
        [\A c \in Calls : Handles(c, "share.sent") =>
           LET i == calls[c].item IN
           /\ Reading([server[i] EXCEPT !.reprompt = calls[c].read.reprompt])
                = Reading(server'[i])
           /\ server'[i].org # server[i].org]_vars
    BY <1>1
<1> QED BY <1>2, ContentsAlwaysFit, PTL DEF Spec, ShareKeepsContents

\* A request from an item memory had up to date leaves every attachment that
\* was under the item's key under it, and puts a new one there, but for the share
\* of an item without a key of its own (update_cipher, upload_attachment).
THEOREM AttachmentsKeepOpening == Spec => FilesKeepOpening
<1>1. ASSUME ContentsInv, [Next]_vars, NEW c \in Calls,
             \E at \in {"update.sent", "share.sent", "slot.sent"} : Handles(c, at),
             ~Rekeys(c), server[calls[c].item].org \in Held \cup {None},
             NEW f \in server'[calls[c].item].files,
             f \in server[calls[c].item].files
               => f.cover = RealKey(server[calls[c].item])
      PROVE  f.cover = RealKey(server'[calls[c].item])
  <2> DEFINE i == calls[c].item
             read == calls[c].read
             body == calls[c].body
             new == server'[i]
  <2>1. PICK at \in {"update.sent", "share.sent", "slot.sent"} : Handles(c, at)
      BY <1>1
  <2>2. /\ calls[c].at = at /\ read \in Item /\ server[i] \in Item
        /\ i \notin lost
        /\ Becoming(c, i, new) \/ Gaining(c, i, new)
      BY <1>1, <2>1, HandledBy
  <2>3. /\ read # None /\ RealKey(read) = RealKey(server[i])
        /\ read.org = server[i].org
      BY <2>1 DEF Handles, Contents
  <2>4. UpdateFits(calls[c]) /\ ShareFits(lost, calls[c]) /\ SlotFits(calls[c])
      BY <1>1 DEF ContentsInv, CallsFit, CallFits
  <2>5. CASE Becoming(c, i, new)
    <3>1. RealKey(body) = RealKey(read)
      <4>1. CASE calls[c].at = "update.sent"
          BY <2>3, <2>4, <4>1, SameRealKey DEF UpdateFits
      <4>2. CASE calls[c].at = "share.sent"
          BY <1>1, <2>2, <2>4, <4>2 DEF ShareFits, Rekeys
      <4> QED BY <2>5, <4>1, <4>2 DEF Becoming
    <3>2. RealKey(new) = RealKey(body) /\ new.files = server[i].files
        BY <2>5, SameRealKey DEF Becoming
    <3> QED BY <1>1, <2>3, <3>1, <3>2
  <2>6. CASE Gaining(c, i, new)
    <3>1. /\ RealKey(new) = RealKey(server[i])
          /\ new.files = server[i].files \cup {calls[c].file}
        BY <2>6, SameRealKey DEF Gaining
    <3>2. calls[c].file.cover = CipherKey(read, Session)
        BY <2>4, <2>6 DEF SlotFits, Gaining
    <3>3. CipherKey(read, Session) = RealKey(read)
        BY <1>1, <2>3, SessionKey
    <3> QED BY <1>1, <2>3, <3>1, <3>2, <3>3
  <2> QED BY <2>2, <2>5, <2>6
<1>2. ContentsInv /\ [Next]_vars =>
        [\A c \in Calls :
           LET i == calls[c].item IN
           /\ \E at \in {"update.sent", "share.sent", "slot.sent"} : Handles(c, at)
           /\ ~Rekeys(c)
           /\ server[i].org \in Held \cup {None}
           => \A f \in server'[i].files :
                (f \in server[i].files => f.cover = RealKey(server[i]))
                  => f.cover = RealKey(server'[i])]_vars
    BY <1>1
<1> QED BY <1>2, ContentsAlwaysFit, PTL DEF Spec, FilesKeepOpening
=============================================================================
