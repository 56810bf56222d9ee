--------------------------- MODULE CiphersProofs ---------------------------
(***************************************************************************)
(* Proofs about Ciphers, for any items, organisations, keys and numbers of *)
(* concurrent commands and changes by other clients.                       *)
(***************************************************************************)
EXTENDS Ciphers, TLAPS

USE KeyAssumption, NoneAssumption

-----------------------------------------------------------------------------
(* The keys a session and everyone have.                                   *)

\* The key of an owner.
Owned(org, orgs) == IF org \in orgs THEN org ELSE UserKey

LEMMA RingKeys ==
    ASSUME NEW item
    PROVE  /\ OwningKey(item, Session) = Owned(item.org, Held)
           /\ OwningKey(item, Everyones) = Owned(item.org, Orgs)
BY DEF OwningKey, Session, Everyones, Owned

LEMMA OwnedIsKey ==
    ASSUME NEW org
    PROVE  Owned(org, Held) \in Owners /\ Owned(org, Orgs) \in Owners
BY DEF Owned, Owners

\* The key inside a wrapper is its own.
LEMMA ItemKeyType ==
    ASSUME NEW item, item.wrap \in Wrap \cup {None}, NEW owner
    PROVE  ItemKey(item, owner) \in OwnKeys \cup {None}
BY DEF ItemKey, DecryptCipherKey, Wrap

LEMMA CipherKeyType ==
    ASSUME NEW item, item.wrap \in Wrap \cup {None}
    PROVE  CipherKey(item, Session) \in Keys /\ RealKey(item) \in Keys
BY RingKeys, OwnedIsKey, ItemKeyType DEF CipherKey, RealKey, Keys, Owners

-----------------------------------------------------------------------------
(* What the request bodies are made of.                                    *)

LEMMA FieldsType ==
    ASSUME NEW input \in Input, NEW key \in Keys
    PROVE  /\ EncryptFields(input, key) \in Fields
           /\ \A p \in Parts : Opens(EncryptFields(input, key)[p], key)
<1>1. input.fields \in [Parts -> Texts \cup {None}] /\ input.fields["name"] # None
    BY DEF Input
<1>2. ASSUME NEW p \in Parts
      PROVE  IF p = "name"
             THEN Seal(input.fields[p], key) \in Sealed
             ELSE SealOpt(input.fields[p], key) \in Sealed \cup {None}
    BY <1>1 DEF Seal, SealOpt, Sealed
<1>3. EncryptFields(input, key) \in Fields
    BY <1>2 DEF EncryptFields, Fields, Parts
<1>4. \A p \in Parts : Opens(EncryptFields(input, key)[p], key)
    BY DEF EncryptFields, Opens, Seal, SealOpt
<1> QED BY <1>3, <1>4

\* A body built from clear text has no key of its own.
LEMMA BuiltBody ==
    ASSUME NEW input \in Input, NEW key \in Keys,
           BuildCipherBody(input, key) # None
    PROVE  LET body == BuildCipherBody(input, key) IN
           /\ body \in Body
           /\ body.org = input.org /\ body.coll = input.coll
           /\ body.wrap = None
           /\ \A p \in Parts : Opens(body.fields[p], key)
<1> DEFINE body == BuildCipherBody(input, key)
<1>1. body = [kind |-> input.kind, org |-> input.org, coll |-> input.coll,
              wrap |-> None, fields |-> EncryptFields(input, key),
              past |-> <<>>, reprompt |-> input.reprompt]
    BY DEF BuildCipherBody
<1>2. /\ input.kind \in Kinds /\ input.org \in Orgs \cup {None}
      /\ input.coll \in Colls \cup {None} /\ input.reprompt \in BOOLEAN
    BY DEF Input
<1>3. body \in Body
    BY <1>1, <1>2, FieldsType DEF Body
<1> QED BY <1>1, <1>3, FieldsType

LEMMA LoginInput ==
    ASSUME NEW input \in Input
    PROVE  /\ [input EXCEPT !.kind = "login"] \in Input
           /\ [input EXCEPT !.kind = "login"].org = input.org
           /\ [input EXCEPT !.kind = "login"].coll = input.coll
BY DEF Input, Kinds

LEMMA BoundInput ==
    ASSUME NEW input \in Input, NEW org \in Orgs \cup {None}
    PROVE  /\ [input EXCEPT !.org = org] \in Input
           /\ [input EXCEPT !.org = org].org = org
BY DEF Input

LEMMA TruncateType ==
    ASSUME NEW past \in Seq(Sealed)
    PROVE  Truncate(past) \in Seq(Sealed)
BY DEF Truncate

LEMMA ReplacedType ==
    ASSUME NEW item \in Item, NEW input, NEW key
    PROVE  Replaced(input, key, item) \in Seq(Sealed)
<1>1. item.fields["password"] \in Sealed \cup {None}
    BY DEF Item, Fields, Parts
<1>2. Present(Decrypt(item.fields["password"], key))
        => item.fields["password"] \in Sealed
    BY <1>1 DEF Present, Decrypt
<1> QED BY <1>2 DEF Replaced

LEMMA UpdatedBody ==
    ASSUME NEW input \in Input, NEW key \in Keys, NEW item \in Item,
           BuildUpdateCipherBody(input, key, item) # None
    PROVE  LET body == BuildUpdateCipherBody(input, key, item) IN
           /\ body \in Body
           /\ body.org = input.org
           /\ \A p \in Parts : Opens(body.fields[p], key)
<1> DEFINE plain == BuildCipherBody(input, key)
           past == Truncate(Replaced(input, key, item) \o item.past)
           body == BuildUpdateCipherBody(input, key, item)
<1>1. plain # None /\ body = [plain EXCEPT !.past = past]
    BY DEF BuildUpdateCipherBody
<1>2. item.past \in Seq(Sealed)
    BY DEF Item
<1>3. past \in Seq(Sealed)
  <2>1. Replaced(input, key, item) \in Seq(Sealed)
      BY ReplacedType
  <2>2. Replaced(input, key, item) \o item.past \in Seq(Sealed)
      BY <1>2, <2>1
  <2> QED BY <2>2, TruncateType
<1>4. plain \in Body /\ plain.org = input.org
      /\ \A p \in Parts : Opens(plain.fields[p], key)
    BY <1>1, BuiltBody
<1> HIDE DEF plain, past
<1>5. body \in Body /\ body.org = plain.org /\ body.fields = plain.fields
    BY <1>1, <1>3, <1>4 DEF Body
<1> QED BY <1>4, <1>5

\* A copy's input has the item's owner and collection, or nothing opens.
LEMMA InputOfItem ==
    ASSUME NEW item \in Item, NEW key,
           CipherToCreateInput(item, key) # None
    PROVE  LET input == CipherToCreateInput(item, key) IN
           /\ input \in Input
           /\ input.org = item.org /\ input.coll = item.coll
           /\ Decrypt(item.fields["name"], key) # None
<1> DEFINE text(p) == Decrypt(item.fields[p], key)
           input == CipherToCreateInput(item, key)
           fields == [p \in Parts |-> IF p = "name" \/ Present(text(p))
                                      THEN text(p) ELSE None]
<1>1. text("name") # None
      /\ input = [kind |-> item.kind, org |-> item.org, coll |-> item.coll,
                  fields |-> fields, reprompt |-> item.reprompt,
                  whole |-> item.whole]
    BY DEF CipherToCreateInput
<1>2. \A p \in Parts : text(p) \in Texts \cup {None}
    BY DEF Decrypt, Item, Fields, Sealed
<1>3. fields \in [Parts -> Texts \cup {None}] /\ fields["name"] = text("name")
    BY <1>2 DEF Parts
<1>4. /\ item.kind \in Kinds /\ item.org \in Orgs \cup {None}
      /\ item.coll \in Colls \cup {None} /\ item.reprompt \in BOOLEAN
      /\ item.whole \in BOOLEAN
    BY DEF Item
<1> HIDE DEF text, fields
<1>5. input \in Input
    BY <1>1, <1>3, <1>4 DEF Input
<1> QED BY <1>1, <1>5 DEF text

LEMMA ReencryptType ==
    ASSUME NEW sealed \in Sealed \cup {None}, NEW to \in Keys
    PROVE  /\ Reencrypt(sealed, to) \in Sealed \cup {None}
           /\ sealed # None => Reencrypt(sealed, to) \in Sealed
           /\ Opens(Reencrypt(sealed, to), to)
BY DEF Reencrypt, Seal, Sealed, Opens

LEMMA HistoryType ==
    ASSUME NEW past \in Seq(Sealed), NEW to \in Keys
    PROVE  RewrappedHistory(past, to) \in Seq(Sealed)
<1>1. \A n \in 1..Len(past) : Reencrypt(past[n], to) \in Sealed
    BY ReencryptType
<1> QED BY <1>1 DEF RewrappedHistory

\* The key of a shared body is the item's own, wrapped for the target, or the
\* target's.
LEMMA SharedBody ==
    ASSUME NEW item \in Item, NEW source \in Keys, NEW coll \in Colls,
           BuildShareCipherBody(item, source, OrgOf[coll], coll) # None
    PROVE  LET body == BuildShareCipherBody(item, source, OrgOf[coll], coll)
               own == ItemKey(item, source)
           IN  /\ body \in Body
               /\ body.org = OrgOf[coll] /\ body.coll = coll
               /\ IF own = None
                  THEN /\ body.wrap = None
                       /\ \A p \in Parts : Opens(body.fields[p], OrgOf[coll])
                  ELSE /\ body.wrap = [under |-> OrgOf[coll], key |-> own]
                       /\ \A p \in Parts : Opens(body.fields[p], own)
               /\ LET from == IF own = None THEN source ELSE own IN
                  \A p \in Parts : Opens(item.fields[p], from)
<1> DEFINE target == OrgOf[coll]
           own == ItemKey(item, source)
           to == IF own = None THEN target ELSE own
           fields == [p \in Parts |-> Reencrypt(item.fields[p], to)]
           past == RewrappedHistory(item.past, to)
           wrap == RewrappedKey(item, own, target)
           body == BuildShareCipherBody(item, source, OrgOf[coll], coll)
<1>1. body = [kind |-> item.kind, org |-> target, coll |-> coll, wrap |-> wrap,
              fields |-> fields, past |-> past, reprompt |-> item.reprompt]
    BY DEF BuildShareCipherBody
<1>2. LET from == IF own = None THEN source ELSE own IN
      \A p \in Parts : Opens(item.fields[p], from)
    BY DEF BuildShareCipherBody
<1>3. target \in Orgs /\ own \in OwnKeys \cup {None}
    BY ItemKeyType DEF Item
<1>4. to \in Keys
    BY <1>3 DEF Keys
<1>5. wrap = (IF own = None THEN None ELSE [under |-> target, key |-> own])
    BY DEF RewrappedKey, EncryptCipherKey
<1>6. wrap \in Wrap \cup {None}
    BY <1>3, <1>5 DEF Wrap, Keys
<1>7. /\ item.fields \in Fields /\ item.past \in Seq(Sealed)
      /\ item.kind \in Kinds /\ item.reprompt \in BOOLEAN
    BY DEF Item
<1> HIDE DEF own, to, body, wrap
<1>8. /\ fields \in Fields
      /\ \A p \in Parts : Opens(fields[p], to)
    BY <1>4, <1>7, ReencryptType DEF Fields, Parts
<1>9. past \in Seq(Sealed)
    BY <1>4, <1>7, HistoryType
<1> HIDE DEF fields, past, target
<1>10. body \in Body
    BY <1>1, <1>3, <1>6, <1>7, <1>8, <1>9 DEF Body
<1>11. IF own = None THEN to = target ELSE to = own
    BY DEF to
<1>12. IF own = None
       THEN body.wrap = None /\ \A p \in Parts : Opens(body.fields[p], target)
       ELSE /\ body.wrap = [under |-> target, key |-> own]
            /\ \A p \in Parts : Opens(body.fields[p], own)
    BY <1>1, <1>5, <1>8, <1>11
<1> QED BY <1>1, <1>2, <1>10, <1>12 DEF own, target, body

-----------------------------------------------------------------------------
(* Types.                                                                  *)

LEMMA Sentinels ==
    /\ None \notin Vaults /\ None \notin FileIds /\ None \notin ItemIds
    /\ None \notin File /\ Gone # None /\ Gone \notin Item
    /\ Inputs \subseteq Input
    /\ MaxCommands \in Nat /\ MaxOthers \in Nat
BY CiphersAssumption

LEMMA IdleType == Idle \in Call /\ Holds(Idle)
<1>1. Idle \in Call
    BY Sentinels DEF Idle, Call, Steps
<1> QED BY <1>1 DEF Idle, Holds, Sent, Answered

\* What is in memory is an item.
LEMMA KnownItem ==
    ASSUME TypeOK, NEW i \in ItemIds, Known(i)
    PROVE  vault \in Vaults /\ vault[i] \in Item
BY Sentinels DEF TypeOK, Known, Vaults

LEMMA ServedItem ==
    ASSUME TypeOK, NEW i \in ItemIds, Served(i)
    PROVE  server[i] \in Item
BY Sentinels DEF TypeOK, Served

\* An invocation may go to any record that holds what its next step needs.
LEMMA GoesTo ==
    ASSUME TypeOK, NEW c \in Calls, NEW next \in Call, Holds(next),
           calls' = [calls EXCEPT ![c] = next]
    PROVE  /\ calls' \in [Calls -> Call]
           /\ \A d \in Calls : Holds(calls'[d])
           /\ calls'[c] = next
           /\ \A d \in Calls : d # c => calls'[d] = calls[d]
BY DEF TypeOK

LEMMA StartType ==
    ASSUME TypeOK, NEW c \in Calls, CanStart(c), NEW call,
           Start(c, call), [call EXCEPT !.op = begun + 1] \in Call,
           Holds([call EXCEPT !.op = begun + 1])
    PROVE  TypeOK'
<1> DEFINE next == [call EXCEPT !.op = begun + 1]
<1>1. next \in Call /\ Holds(next) /\ calls' = [calls EXCEPT ![c] = next]
    BY DEF Start
<1> HIDE DEF next
<1>2. calls' \in [Calls -> Call] /\ \A d \in Calls : Holds(calls'[d])
    BY <1>1, GoesTo
<1>3. begun' \in 0..MaxCommands
    BY Sentinels DEF TypeOK, Start, CanStart
<1>4. UNCHANGED <<server, bytes, open, vault, cache, snaps, taken, lost, others>>
    BY DEF Start, disk
<1> QED BY <1>2, <1>3, <1>4 DEF TypeOK

LEMMA ServeType ==
    ASSUME TypeOK, NEW c \in Calls, NEW next \in Call, Holds(next),
           Serve(c, next),
           server' \in [ItemIds -> Item \cup {None, Gone}],
           bytes' \in SUBSET FileIds, taken' \in SUBSET (FileIds \cup OwnKeys),
           lost' \in SUBSET ItemIds
    PROVE  TypeOK'
<1>1. calls' \in [Calls -> Call] /\ \A d \in Calls : Holds(calls'[d])
    BY GoesTo DEF Serve, Goto
<1>2. UNCHANGED <<open, vault, cache, snaps, begun, others>>
    BY DEF Serve, disk, count
<1> QED BY <1>1, <1>2 DEF TypeOK

LEMMA ReturnType ==
    ASSUME TypeOK, NEW c \in Calls, Return(c)
    PROVE  /\ calls' \in [Calls -> Call]
           /\ \A d \in Calls : Holds(calls'[d])
BY IdleType, GoesTo DEF Return, Goto

LEMMA SpliceType ==
    ASSUME TypeOK, NEW c \in Calls, NEW i \in ItemIds, NEW new,
           Known(i) => new \in Item \cup {None}, Splice(c, i, new)
    PROVE  TypeOK'
<1>1. calls' \in [Calls -> Call] /\ \A d \in Calls : Holds(calls'[d])
    BY ReturnType DEF Splice
<1>2. UNCHANGED <<server, bytes, open, cache, snaps, taken, lost, begun, others>>
    BY DEF Splice, disk, count
<1>3. vault' \in Vaults \cup {None}
    BY KnownItem DEF Splice, TypeOK, Vaults
<1> QED BY <1>1, <1>2, <1>3 DEF TypeOK

\* An item as a body makes it.
LEMMA ReplacedItem ==
    ASSUME NEW item \in Item, NEW body \in Body,
           NEW wrap \in KeptWraps(item, body)
    PROVE  /\ Replaces(item, body, wrap) \in Item /\ wrap \in Wrap \cup {None}
           /\ wrap # body.wrap => body.wrap = None /\ wrap = item.wrap
<1>1. wrap \in Wrap \cup {None}
    BY DEF KeptWraps, Item, Body
<1> QED BY <1>1 DEF Replaces, KeptWraps, Item, Body

LEMMA LosingType ==
    ASSUME TypeOK, NEW i \in ItemIds, NEW body, NEW wrap
    PROVE  Losing(i, body, wrap) \in SUBSET ItemIds
BY DEF Losing, TypeOK

LEMMA CopyOfType ==
    ASSUME NEW item \in Item, CopyOf(item) # None
    PROVE  /\ CopyOf(item) \in Body /\ CopyOf(item).wrap = None
           /\ CopyOf(item).org = item.org /\ CopyOf(item).coll = item.coll
           /\ Decrypt(item.fields["name"], CipherKey(item, Session)) # None
           /\ \A p \in Parts :
                Opens(CopyOf(item).fields[p], Owned(item.org, Held))
<1> DEFINE input == CipherToCreateInput(item, CipherKey(item, Session))
           owner == OwningKey(item, Session)
<1>1. input # None /\ CopyOf(item) = BuildCipherBody(input, owner)
    BY DEF CopyOf
<1>2. owner = Owned(item.org, Held) /\ owner \in Keys
    BY RingKeys, OwnedIsKey DEF Owners, Keys
<1>3. /\ input \in Input /\ input.org = item.org /\ input.coll = item.coll
      /\ Decrypt(item.fields["name"], CipherKey(item, Session)) # None
    BY <1>1, InputOfItem
<1> HIDE DEF input, owner
<1>4. /\ CopyOf(item) \in Body /\ CopyOf(item).wrap = None
      /\ CopyOf(item).org = item.org /\ CopyOf(item).coll = item.coll
      /\ \A p \in Parts : Opens(CopyOf(item).fields[p], owner)
    BY <1>1, <1>2, <1>3, BuiltBody
<1> QED BY <1>2, <1>3, <1>4

\* The body of an update of an item in memory has its owner and its wrapper,
\* and is under the key they lead to.
LEMMA UpdateBodyType ==
    ASSUME TypeOK, NEW i \in ItemIds, NEW input \in Input,
           UpdateBody(i, input) # None
    PROVE  LET body == UpdateBody(i, input)
               org == IF Known(i) THEN vault[i].org ELSE None
               wrap == IF Known(i) THEN vault[i].wrap ELSE None
               owner == IF org = None THEN UserKey ELSE org
           IN  /\ body \in Body /\ body.org = org /\ body.wrap = wrap
               /\ org \in Held \cup {None}
               /\ wrap # None => wrap.under = owner
               /\ \A p \in Parts : Opens(body.fields[p],
                                         IF wrap = None THEN owner ELSE wrap.key)
<1> DEFINE org == IF Known(i) THEN vault[i].org ELSE None
           wrap == IF Known(i) THEN vault[i].wrap ELSE None
           owner == IF org = None THEN UserKey ELSE org
           own == IF wrap = None THEN None ELSE DecryptCipherKey(owner, wrap)
           key == IF own = None THEN owner ELSE own
           bound == [input EXCEPT !.org = org]
           built == IF Known(i) THEN BuildUpdateCipherBody(bound, key, vault[i])
                    ELSE BuildCipherBody(bound, key)
<1>1. /\ org \in Held \cup {None} /\ ~(wrap # None /\ own = None)
      /\ built # None /\ UpdateBody(i, input) = [built EXCEPT !.wrap = wrap]
    BY DEF UpdateBody
<1>2. wrap \in Wrap \cup {None} /\ (Known(i) => vault[i] \in Item)
    BY KnownItem DEF Item
<1>3. /\ wrap # None => wrap.under = owner /\ own = wrap.key
      /\ key = (IF wrap = None THEN owner ELSE wrap.key) /\ key \in Keys
    BY <1>1, <1>2 DEF DecryptCipherKey, Wrap, Keys
<1>4. bound \in Input /\ bound.org = org
    BY <1>1, BoundInput
<1> HIDE DEF org, wrap, owner, own, key, bound
<1>5. /\ built \in Body /\ built.org = org
      /\ \A p \in Parts : Opens(built.fields[p], key)
    BY <1>1, <1>2, <1>3, <1>4, UpdatedBody, BuiltBody
<1> HIDE DEF built
<1>6. /\ UpdateBody(i, input) \in Body
      /\ UpdateBody(i, input).org = org /\ UpdateBody(i, input).wrap = wrap
      /\ UpdateBody(i, input).fields = built.fields
    BY <1>1, <1>2, <1>5 DEF Body
<1> QED BY <1>1, <1>3, <1>5, <1>6 DEF org, wrap, owner

-----------------------------------------------------------------------------
(* Opening, as a matter of the owner, the wrapper and the fields alone.    *)

OpensUnder(org, wrap, fields) ==
    /\ wrap # None => wrap.under = Owned(org, Orgs)
    /\ \A p \in Parts :
         Opens(fields[p], IF wrap = None THEN Owned(org, Orgs) ELSE wrap.key)

LEMMA OpensIs ==
    ASSUME NEW item, item.wrap \in Wrap \cup {None}
    PROVE  ItemOpens(item) <=> OpensUnder(item.org, item.wrap, item.fields)
<1> DEFINE owner == OwningKey(item, Everyones)
<1>1. owner = Owned(item.org, Orgs)
    BY RingKeys
<1>2. WrapOpens(item) <=> item.wrap = None \/ item.wrap.under = owner
    BY DEF WrapOpens
<1>3. WrapOpens(item) =>
        RealKey(item) = IF item.wrap = None THEN owner ELSE item.wrap.key
  <2>1. item.wrap # None => item.wrap.key # None
      BY DEF Wrap, Keys
  <2> QED BY <1>2, <2>1 DEF RealKey, CipherKey, ItemKey, DecryptCipherKey
<1> QED BY <1>1, <1>2, <1>3 DEF ItemOpens, OpensUnder

\* Items alike in these open alike.
LEMMA SameOpens ==
    ASSUME NEW item, NEW other, item.wrap \in Wrap \cup {None},
           other.org = item.org, other.wrap = item.wrap,
           other.fields = item.fields
    PROVE  ItemOpens(other) <=> ItemOpens(item)
BY OpensIs

-----------------------------------------------------------------------------
(* The first window of a command.                                          *)

Begins(c, next) ==
    /\ next \in Call /\ Holds(next)
    /\ next.op = begun + 1 /\ next.answer = None /\ next.listing = None
    /\ calls' = [calls EXCEPT ![c] = next]
    /\ begun' = begun + 1 /\ begun' <= MaxCommands
    /\ UNCHANGED <<server, bytes, open, vault, cache, snaps, taken, lost, others>>

\* Its body opens, or copies an item in memory.
BodyOpens(next) ==
    next.body # None =>
        \/ ItemOpens(next.body)
        \/ \E i \in ItemIds : Known(i) /\ next.body = CopyOf(vault[i])
\* It has no key of its own, or that of its item.
BodyWraps(next) ==
    next.body # None =>
        \/ next.body.wrap = None
        \/ /\ next.at # "create.sent"
           /\ next.item \in ItemIds /\ Known(next.item)
           /\ vault[next.item].wrap # None
           /\ next.body.wrap.key = vault[next.item].wrap.key
\* Its collection is one of its organisation, or an item's in memory.
BodyFits(next) ==
    /\ next.at = "create.sent" =>
         \/ next.body.org # None /\ next.body.coll # None
              => OrgOf[next.body.coll] = next.body.org
         \/ \E i \in ItemIds :
              /\ Known(i)
              /\ next.body.org = vault[i].org /\ next.body.coll = vault[i].coll
    /\ next.at = "share.save" =>
         /\ next.body.org \in Held /\ next.body.coll # None
         /\ next.body.org = OrgOf[next.body.coll]
    /\ next.at = "move.sent" =>
         Known(next.item) /\ next.read.org = vault[next.item].org
           /\ next.read.org = OrgOf[next.read.coll]
    /\ next.at \in {"update.sent", "login.sent"} =>
         next.body.org \in Held \cup {None}
ReadFits(next) ==
    next.at = "share.save" =>
        \A p \in Parts : Opens(next.read.fields[p], CipherKey(next.read, Session))
FileFits(next) ==
    /\ next.at = "slot.sent" =>
         /\ next.file.id \notin taken
         /\ \A d \in Calls : calls[d].file # None => calls[d].file.id # next.file.id
    /\ next.at = "unfile.sent" =>
         Known(next.item) /\ next.file \in vault[next.item].files

StartFits(next) ==
    /\ next.at \in (Sent \cup {"share.save"}) \ {"data.sent", "share.sent"}
    /\ BodyOpens(next) /\ BodyWraps(next) /\ BodyFits(next)
    /\ ReadFits(next) /\ FileFits(next)

StartStep(c) ==
    \/ CreateStart(c) \/ CreateLoginStart(c) \/ SyncStart(c)
    \/ \E i \in ItemIds :
         \/ DuplicateStart(c, i) \/ UpdateStart(c, i) \/ UpdateLoginStart(c, i)
         \/ DeleteStart(c, i)
         \/ \E coll \in Colls : ShareStart(c, i, coll) \/ MoveStart(c, i, coll)
         \/ \E flag \in BOOLEAN : FlagStart(c, i, flag)
         \/ \E f \in FileIds : UploadStart(c, i, f)
         \/ Known(i) /\ \E file \in vault[i].files : UnfileStart(c, i, file)

\* The record an invocation starts with.
First(op, at, item, read, body, file, flag) ==
    [at |-> at, op |-> op, item |-> item, read |-> read, body |-> body,
     file |-> file, flag |-> flag, answer |-> None, listing |-> None]

LEMMA FirstBody ==
    ASSUME NEW at, NEW body
    PROVE  [Idle EXCEPT !.at = at, !.body = body]
             = First(0, at, None, None, body, None, FALSE)
<1>1. ASSUME NEW call, call = [Idle EXCEPT !.at = at, !.body = body]
      PROVE  call = First(0, at, None, None, body, None, FALSE)
    BY <1>1 DEF Idle, First
<1> QED BY <1>1

LEMMA FirstBodyRead ==
    ASSUME NEW at, NEW item, NEW read, NEW body
    PROVE  [Idle EXCEPT !.at = at, !.item = item, !.body = body, !.read = read]
             = First(0, at, item, read, body, None, FALSE)
<1>1. ASSUME NEW call, call = [Idle EXCEPT !.at = at, !.item = item, !.body = body, !.read = read]
      PROVE  call = First(0, at, item, read, body, None, FALSE)
    BY <1>1 DEF Idle, First
<1> QED BY <1>1

LEMMA FirstReadBody ==
    ASSUME NEW at, NEW item, NEW read, NEW body
    PROVE  [Idle EXCEPT !.at = at, !.item = item, !.read = read, !.body = body]
             = First(0, at, item, read, body, None, FALSE)
<1>1. ASSUME NEW call, call = [Idle EXCEPT !.at = at, !.item = item, !.read = read, !.body = body]
      PROVE  call = First(0, at, item, read, body, None, FALSE)
    BY <1>1 DEF Idle, First
<1> QED BY <1>1

LEMMA FirstItemBody ==
    ASSUME NEW at, NEW item, NEW body
    PROVE  [Idle EXCEPT !.at = at, !.item = item, !.body = body]
             = First(0, at, item, None, body, None, FALSE)
<1>1. ASSUME NEW call, call = [Idle EXCEPT !.at = at, !.item = item, !.body = body]
      PROVE  call = First(0, at, item, None, body, None, FALSE)
    BY <1>1 DEF Idle, First
<1> QED BY <1>1

LEMMA FirstItemRead ==
    ASSUME NEW at, NEW item, NEW read
    PROVE  [Idle EXCEPT !.at = at, !.item = item, !.read = read]
             = First(0, at, item, read, None, None, FALSE)
<1>1. ASSUME NEW call, call = [Idle EXCEPT !.at = at, !.item = item, !.read = read]
      PROVE  call = First(0, at, item, read, None, None, FALSE)
    BY <1>1 DEF Idle, First
<1> QED BY <1>1

LEMMA FirstItemFlag ==
    ASSUME NEW at, NEW item, NEW flag
    PROVE  [Idle EXCEPT !.at = at, !.item = item, !.flag = flag]
             = First(0, at, item, None, None, None, flag)
<1>1. ASSUME NEW call, call = [Idle EXCEPT !.at = at, !.item = item, !.flag = flag]
      PROVE  call = First(0, at, item, None, None, None, flag)
    BY <1>1 DEF Idle, First
<1> QED BY <1>1

LEMMA FirstItem ==
    ASSUME NEW at, NEW item
    PROVE  [Idle EXCEPT !.at = at, !.item = item]
             = First(0, at, item, None, None, None, FALSE)
<1>1. ASSUME NEW call, call = [Idle EXCEPT !.at = at, !.item = item]
      PROVE  call = First(0, at, item, None, None, None, FALSE)
    BY <1>1 DEF Idle, First
<1> QED BY <1>1

LEMMA FirstReadFile ==
    ASSUME NEW at, NEW item, NEW read, NEW file
    PROVE  [Idle EXCEPT !.at = at, !.item = item, !.read = read, !.file = file]
             = First(0, at, item, read, None, file, FALSE)
<1>1. ASSUME NEW call, call = [Idle EXCEPT !.at = at, !.item = item, !.read = read, !.file = file]
      PROVE  call = First(0, at, item, read, None, file, FALSE)
    BY <1>1 DEF Idle, First
<1> QED BY <1>1

LEMMA FirstItemFile ==
    ASSUME NEW at, NEW item, NEW file
    PROVE  [Idle EXCEPT !.at = at, !.item = item, !.file = file]
             = First(0, at, item, None, None, file, FALSE)
<1>1. ASSUME NEW call, call = [Idle EXCEPT !.at = at, !.item = item, !.file = file]
      PROVE  call = First(0, at, item, None, None, file, FALSE)
    BY <1>1 DEF Idle, First
<1> QED BY <1>1

LEMMA FirstPlain ==
    ASSUME NEW at
    PROVE  [Idle EXCEPT !.at = at]
             = First(0, at, None, None, None, None, FALSE)
<1>1. ASSUME NEW call, call = [Idle EXCEPT !.at = at]
      PROVE  call = First(0, at, None, None, None, None, FALSE)
    BY <1>1 DEF Idle, First
<1> QED BY <1>1

LEMMA Begun ==
    ASSUME TypeOK, NEW c \in Calls, CanStart(c), NEW at \in Steps,
           NEW item \in ItemIds \cup {None}, NEW read \in Item \cup {None},
           NEW body \in Body \cup {None}, NEW file \in File \cup {None},
           NEW flag \in BOOLEAN,
           Start(c, First(0, at, item, read, body, file, flag)),
           Holds(First(begun + 1, at, item, read, body, file, flag))
    PROVE  Begins(c, First(begun + 1, at, item, read, body, file, flag))
<1> DEFINE next == First(begun + 1, at, item, read, body, file, flag)
<1>1. [First(0, at, item, read, body, file, flag) EXCEPT !.op = begun + 1] = next
    BY DEF First
<1>2. calls' = [calls EXCEPT ![c] = next] /\ begun' = begun + 1
    BY <1>1, Zenon DEF Start
<1>3. begun + 1 \in 0..MaxCommands
    BY Sentinels DEF TypeOK, CanStart
<1>4. next \in Call
    BY <1>3 DEF First, Call
<1>5. UNCHANGED <<server, bytes, open, vault, cache, snaps, taken, lost, others>>
    BY DEF Start, disk
<1>6. next.op = begun + 1 /\ next.answer = None /\ next.listing = None
    BY DEF First
<1> QED BY <1>2, <1>3, <1>4, <1>5, <1>6 DEF Begins

Started(c) == \E next : Begins(c, next) /\ StartFits(next)

LEMMA CreateBegins ==
    ASSUME TypeOK, NEW c \in Calls, CanStart(c), NEW body \in Body,
           body.wrap = None,
           Start(c, [Idle EXCEPT !.at = "create.sent", !.body = body]),
           \/ ItemOpens(body)
           \/ \E i \in ItemIds : Known(i) /\ body = CopyOf(vault[i]),
           \/ body.org # None /\ body.coll # None => OrgOf[body.coll] = body.org
           \/ \E i \in ItemIds : /\ Known(i) /\ body.org = vault[i].org
                                 /\ body.coll = vault[i].coll
    PROVE  Started(c)
<1> DEFINE next == First(begun + 1, "create.sent", None, None, body, None, FALSE)
<1>1. Start(c, First(0, "create.sent", None, None, body, None, FALSE))
    BY FirstBody, Zenon
<1>2. Holds(next)
    BY Sentinels DEF First, Holds, TypeOK
<1>3. Begins(c, next)
    BY <1>1, <1>2, Begun DEF Steps, Sent
<1>4. next.at = "create.sent" /\ next.body = body
    BY DEF First
<1> HIDE DEF next
<1>5. BodyOpens(next) /\ BodyWraps(next)
    BY <1>4 DEF BodyOpens, BodyWraps
<1>6. BodyFits(next) /\ ReadFits(next) /\ FileFits(next)
    BY <1>4 DEF BodyFits, ReadFits, FileFits
<1> QED BY <1>3, <1>4, <1>5, <1>6 DEF Started, StartFits, Sent

\* A body in clear text's own owner's key opens.
LEMMA BuiltOpens ==
    ASSUME NEW input \in Input, NEW key, key = Owned(input.org, Orgs),
           BuildCipherBody(input, key) # None
    PROVE  ItemOpens(BuildCipherBody(input, key))
<1>1. key \in Keys
    BY OwnedIsKey DEF Owners, Keys
<1> QED BY <1>1, BuiltBody, OpensIs DEF OpensUnder, Body

LEMMA CreateStarted == ASSUME TypeOK, NEW c \in Calls, CreateStart(c) PROVE Started(c)
<1>1. PICK input \in Inputs :
        LET key == IF input.org = None THEN UserKey ELSE input.org
            body == BuildCipherBody(input, key)
        IN  /\ input.org # None => vault # None /\ input.org \in Held
            /\ body # None
            /\ Start(c, [Idle EXCEPT !.at = "create.sent", !.body = body])
    BY DEF CreateStart
<1> DEFINE key == IF input.org = None THEN UserKey ELSE input.org
           body == BuildCipherBody(input, key)
<1>2. input \in Input
      /\ (input.org # None /\ input.coll # None => OrgOf[input.coll] = input.org)
    BY CiphersAssumption
<1>3. key = Owned(input.org, Orgs) /\ key \in Keys
    BY <1>1, <1>2 DEF Owned, Keys, Input
<1>4. /\ body \in Body /\ body.wrap = None
      /\ body.org = input.org /\ body.coll = input.coll
    BY <1>1, <1>2, <1>3, BuiltBody
<1>5. ItemOpens(body)
    BY <1>1, <1>2, <1>3, BuiltOpens
<1>6. CanStart(c)
    BY DEF CreateStart
<1> HIDE DEF key, body
<1>7. Start(c, [Idle EXCEPT !.at = "create.sent", !.body = body])
    BY <1>1, Zenon DEF key, body
<1> QED BY <1>2, <1>4, <1>5, <1>6, <1>7, CreateBegins

LEMMA LoginBody ==
    ASSUME NEW input \in Inputs, input.org = None,
           BuildLoginCipherBody(input, UserKey) # None
    PROVE  LET body == BuildLoginCipherBody(input, UserKey) IN
           body \in Body /\ body.wrap = None /\ body.org = None /\ ItemOpens(body)
<1> DEFINE login == [input EXCEPT !.kind = "login"]
<1>1. login \in Input /\ login.org = None
    BY Sentinels, LoginInput
<1>2. UserKey = Owned(None, Orgs) /\ UserKey \in Keys
    BY DEF Owned, Keys
<1> HIDE DEF login
<1>3. BuildCipherBody(login, UserKey) # None
      /\ BuildLoginCipherBody(input, UserKey) = BuildCipherBody(login, UserKey)
    BY DEF BuildLoginCipherBody, login
<1> QED BY <1>1, <1>2, <1>3, BuiltBody, BuiltOpens

LEMMA CreateLoginStarted ==
    ASSUME TypeOK, NEW c \in Calls, CreateLoginStart(c) PROVE Started(c)
<1>1. PICK input \in Inputs :
        LET body == BuildLoginCipherBody(input, UserKey) IN
        /\ input.org = None
        /\ body # None
        /\ Start(c, [Idle EXCEPT !.at = "create.sent", !.body = body])
    BY DEF CreateLoginStart
<1> DEFINE body == BuildLoginCipherBody(input, UserKey)
<1>2. body \in Body /\ body.wrap = None /\ body.org = None /\ ItemOpens(body)
    BY <1>1, LoginBody
<1>3. CanStart(c)
    BY DEF CreateLoginStart
<1> HIDE DEF body
<1>4. Start(c, [Idle EXCEPT !.at = "create.sent", !.body = body])
    BY <1>1, Zenon DEF body
<1> QED BY <1>2, <1>3, <1>4, CreateBegins

LEMMA DuplicateStarted ==
    ASSUME TypeOK, NEW c \in Calls, NEW i \in ItemIds, DuplicateStart(c, i)
    PROVE  Started(c)
<1> DEFINE body == CopyOf(vault[i])
<1>1. Known(i) /\ CanStart(c) /\ body # None
      /\ Start(c, [Idle EXCEPT !.at = "create.sent", !.body = body])
    BY DEF DuplicateStart
<1>2. /\ body \in Body /\ body.wrap = None
      /\ body.org = vault[i].org /\ body.coll = vault[i].coll
    BY <1>1, KnownItem, CopyOfType
<1>3. \E j \in ItemIds : Known(j) /\ body = CopyOf(vault[j])
    BY <1>1
<1> HIDE DEF body
<1> QED BY <1>1, <1>2, <1>3, CreateBegins

LEMMA UpdateStarted ==
    ASSUME TypeOK, NEW c \in Calls, NEW i \in ItemIds, UpdateStart(c, i)
    PROVE  Started(c)
<1> DEFINE read == IF Known(i) THEN vault[i] ELSE None
<1>1. PICK input \in Inputs :
        LET body == UpdateBody(i, input) IN
        /\ body # None
        /\ Start(c, [Idle EXCEPT !.at = "update.sent", !.item = i,
                                 !.body = body, !.read = read])
    BY DEF UpdateStart
<1> DEFINE body == UpdateBody(i, input)
           org == IF Known(i) THEN vault[i].org ELSE None
           wrap == IF Known(i) THEN vault[i].wrap ELSE None
           owner == IF org = None THEN UserKey ELSE org
           next == First(begun + 1, "update.sent", i, read, body, None, FALSE)
<1>2. CanStart(c) /\ input \in Input
    BY Sentinels DEF UpdateStart
<1>3. /\ body \in Body /\ body.org = org /\ body.wrap = wrap
      /\ org \in Held \cup {None}
      /\ wrap # None => wrap.under = owner
      /\ \A p \in Parts : Opens(body.fields[p],
                                IF wrap = None THEN owner ELSE wrap.key)
    BY <1>1, <1>2, UpdateBodyType
<1>4. wrap # None => Known(i) /\ vault[i].wrap = wrap
    OBVIOUS
<1>5. owner = Owned(org, Orgs)
    BY <1>3 DEF Owned, Keys
<1>6. read \in Item \cup {None}
    BY KnownItem
<1> HIDE DEF body, org, wrap, owner, read
<1>7. ItemOpens(body)
    BY <1>3, <1>5, OpensIs DEF OpensUnder, Body
<1>8. Start(c, First(0, "update.sent", i, read, body, None, FALSE))
    BY <1>1, FirstBodyRead, Zenon DEF body
<1>9. Holds(next)
    BY <1>3, Sentinels DEF First, Holds, TypeOK
<1>10. Begins(c, next)
    BY <1>2, <1>3, <1>6, <1>8, <1>9, Begun DEF Steps, Sent
<1>11. next.at = "update.sent" /\ next.body = body /\ next.item = i
    BY DEF First
<1> HIDE DEF next
<1>12. BodyOpens(next) /\ BodyWraps(next)
    BY <1>3, <1>4, <1>7, <1>11 DEF BodyOpens, BodyWraps
<1>13. BodyFits(next) /\ ReadFits(next) /\ FileFits(next)
    BY <1>3, <1>11 DEF BodyFits, ReadFits, FileFits
<1> QED BY <1>10, <1>11, <1>12, <1>13 DEF Started, StartFits, Sent

LEMMA UpdateLoginStarted ==
    ASSUME TypeOK, NEW c \in Calls, NEW i \in ItemIds, UpdateLoginStart(c, i)
    PROVE  Started(c)
<1>1. PICK input \in Inputs :
        LET body == BuildLoginCipherBody(input, UserKey) IN
        /\ input.org = None
        /\ body # None
        /\ Start(c, [Idle EXCEPT !.at = "login.sent", !.item = i, !.body = body])
    BY DEF UpdateLoginStart
<1> DEFINE body == BuildLoginCipherBody(input, UserKey)
           next == First(begun + 1, "login.sent", i, None, body, None, FALSE)
<1>2. body \in Body /\ body.wrap = None /\ body.org = None /\ ItemOpens(body)
    BY <1>1, LoginBody
<1>3. CanStart(c)
    BY DEF UpdateLoginStart
<1> HIDE DEF body
<1>4. Start(c, First(0, "login.sent", i, None, body, None, FALSE))
    BY <1>1, FirstItemBody, Zenon DEF body
<1>5. Holds(next)
    BY <1>2, Sentinels DEF First, Holds, TypeOK
<1>6. Begins(c, next)
    BY <1>2, <1>3, <1>4, <1>5, Begun DEF Steps, Sent
<1>7. next.at = "login.sent" /\ next.body = body
    BY DEF First
<1> HIDE DEF next
<1>8. BodyOpens(next) /\ BodyWraps(next)
    BY <1>2, <1>7 DEF BodyOpens, BodyWraps
<1>9. BodyFits(next) /\ ReadFits(next) /\ FileFits(next)
    BY <1>2, <1>7 DEF BodyFits, ReadFits, FileFits
<1> QED BY <1>6, <1>7, <1>8, <1>9 DEF Started, StartFits, Sent

LEMMA ShareStarted ==
    ASSUME TypeOK, NEW c \in Calls, NEW i \in ItemIds, NEW coll \in Colls,
           ShareStart(c, i, coll)
    PROVE  Started(c)
<1> DEFINE item == vault[i]
           source == IF item.org = None THEN UserKey ELSE item.org
           target == OrgOf[coll]
           body == BuildShareCipherBody(item, source, target, coll)
           own == ItemKey(item, source)
           next == First(begun + 1, "share.save", i, item, body, None, FALSE)
<1>1. /\ CanStart(c) /\ Known(i)
      /\ target \in Held /\ item.org \in Held \cup {None} /\ body # None
      /\ Start(c, [Idle EXCEPT !.at = "share.save", !.item = i,
                               !.read = item, !.body = body])
    BY DEF ShareStart
<1>2. item \in Item
    BY <1>1, KnownItem
<1>3. source = Owned(item.org, Held) /\ source \in Keys
    BY <1>1 DEF Owned, Keys
<1>4. /\ body \in Body /\ body.org = target /\ body.coll = coll
      /\ IF own = None
         THEN /\ body.wrap = None
              /\ \A p \in Parts : Opens(body.fields[p], target)
         ELSE /\ body.wrap = [under |-> target, key |-> own]
              /\ \A p \in Parts : Opens(body.fields[p], own)
      /\ LET from == IF own = None THEN source ELSE own IN
         \A p \in Parts : Opens(item.fields[p], from)
    BY <1>1, <1>2, <1>3, SharedBody
<1>5. own # None => item.wrap # None /\ item.wrap.key = own
    BY DEF ItemKey, DecryptCipherKey
<1>6. CipherKey(item, Session) = (IF own = None THEN source ELSE own)
    BY <1>3, RingKeys DEF CipherKey
<1>7. target = Owned(target, Orgs)
    BY <1>1 DEF Owned
<1>8. target \in Orgs /\ target # None /\ coll # None
    BY <1>1 DEF Keys
<1> HIDE DEF body, own, item, target, source
<1>9. Start(c, First(0, "share.save", i, item, body, None, FALSE))
    BY <1>1, FirstReadBody, Zenon
<1>10. ItemOpens(body)
  <2>1. OpensUnder(target, body.wrap, body.fields)
    <3>1. CASE own = None
        BY <1>4, <1>7, <3>1 DEF OpensUnder
    <3>2. CASE own # None
      <4>1. body.wrap = [under |-> target, key |-> own]
          BY <1>4, <3>2
      <4>2. body.wrap \in Wrap \cup {None} /\ own \in OwnKeys
          BY <1>2, <1>4, <3>2, ItemKeyType DEF Body, own, Item
      <4>3. body.wrap # None
          BY <4>1, <4>2, <1>8 DEF Wrap, Keys
      <4> QED BY <1>4, <1>7, <3>2, <4>1, <4>3 DEF OpensUnder
    <3> QED BY <3>1, <3>2
  <2> QED BY <1>4, <2>1, OpensIs DEF Body
<1>11. Holds(next)
    BY <1>2, <1>4, <1>8, Sentinels DEF First, Holds, TypeOK, Sent, Answered
<1>12. Begins(c, next)
    BY <1>1, <1>2, <1>4, <1>9, <1>11, Begun DEF Steps
<1>13. /\ next.at = "share.save" /\ next.body = body /\ next.item = i
       /\ next.read = item
    BY DEF First
<1> HIDE DEF next
<1>14. BodyOpens(next)
    BY <1>10, <1>13 DEF BodyOpens
<1>15. BodyWraps(next)
    BY <1>1, <1>4, <1>5, <1>13 DEF BodyWraps, item
<1>16. BodyFits(next) /\ FileFits(next)
    BY <1>1, <1>4, <1>8, <1>13 DEF BodyFits, FileFits, target
<1>17. ReadFits(next)
    BY <1>4, <1>6, <1>13 DEF ReadFits
<1> QED BY <1>12, <1>13, <1>14, <1>15, <1>16, <1>17 DEF Started, StartFits

LEMMA MoveStarted ==
    ASSUME TypeOK, NEW c \in Calls, NEW i \in ItemIds, NEW coll \in Colls,
           MoveStart(c, i, coll)
    PROVE  Started(c)
<1> DEFINE read == [vault[i] EXCEPT !.coll = coll]
           next == First(begun + 1, "move.sent", i, read, None, None, FALSE)
<1>1. /\ CanStart(c) /\ Known(i) /\ vault[i].org = OrgOf[coll]
      /\ Start(c, [Idle EXCEPT !.at = "move.sent", !.item = i, !.read = read])
    BY DEF MoveStart, ValidateMove
<1>2. vault[i] \in Item
    BY <1>1, KnownItem
<1>3. read \in Item /\ read.org = vault[i].org /\ read.coll = coll
    BY <1>2 DEF Item
<1> HIDE DEF read
<1>4. Start(c, First(0, "move.sent", i, read, None, None, FALSE))
    BY <1>1, FirstItemRead, Zenon
<1>5. Holds(next)
    BY <1>3, Sentinels DEF First, Holds, TypeOK, Keys
<1>6. Begins(c, next)
    BY <1>1, <1>3, <1>4, <1>5, Begun DEF Steps, Sent
<1>7. /\ next.at = "move.sent" /\ next.body = None /\ next.read = read
      /\ next.item = i
    BY DEF First
<1> HIDE DEF next
<1>8. BodyOpens(next) /\ BodyWraps(next) /\ ReadFits(next) /\ FileFits(next)
    BY <1>7 DEF BodyOpens, BodyWraps, ReadFits, FileFits
<1>9. BodyFits(next)
    BY <1>1, <1>3, <1>7 DEF BodyFits
<1> QED BY <1>6, <1>7, <1>8, <1>9 DEF Started, StartFits, Sent

\* Commands that carry no body and no reading.
LEMMA PlainStarted ==
    ASSUME TypeOK, NEW c \in Calls, CanStart(c),
           NEW at \in {"flag.sent", "delete.sent", "sync.sent"},
           NEW item \in ItemIds \cup {None}, at # "sync.sent" => item # None,
           NEW flag \in BOOLEAN,
           Start(c, First(0, at, item, None, None, None, flag))
    PROVE  Started(c)
<1> DEFINE next == First(begun + 1, at, item, None, None, None, flag)
<1>1. Holds(next)
    BY Sentinels DEF First, Holds, TypeOK
<1>2. Begins(c, next)
    BY <1>1, Begun DEF Steps, Sent
<1>3. next.at = at /\ next.body = None
    BY DEF First
<1> HIDE DEF next
<1>4. BodyOpens(next) /\ BodyWraps(next) /\ BodyFits(next)
    BY <1>3 DEF BodyOpens, BodyWraps, BodyFits
<1>5. ReadFits(next) /\ FileFits(next)
    BY <1>3 DEF ReadFits, FileFits
<1> QED BY <1>2, <1>3, <1>4, <1>5 DEF Started, StartFits, Sent

LEMMA NewFileType ==
    ASSUME NEW item \in Item, NEW f \in FileIds
    PROVE  NewFile(f, item, Session) \in File /\ NewFile(f, item, Session).id = f
<1>1. CipherKey(item, Session) \in Keys
    BY CipherKeyType DEF Item
<1> QED BY <1>1 DEF NewFile, File

LEMMA UploadStarted ==
    ASSUME TypeOK, NEW c \in Calls, NEW i \in ItemIds, NEW f \in FileIds,
           UploadStart(c, i, f)
    PROVE  Started(c)
<1> DEFINE file == NewFile(f, vault[i], Session)
           next == First(begun + 1, "slot.sent", i, vault[i], None, file, FALSE)
<1>1. /\ CanStart(c) /\ Known(i) /\ f \notin taken
      /\ \A d \in Calls : calls[d].file # None => calls[d].file.id # f
      /\ Start(c, [Idle EXCEPT !.at = "slot.sent", !.item = i,
                               !.read = vault[i], !.file = file])
    BY DEF UploadStart
<1>2. vault[i] \in Item
    BY <1>1, KnownItem
<1>3. file \in File /\ file.id = f
    BY <1>2, NewFileType
<1> HIDE DEF file
<1>4. Start(c, First(0, "slot.sent", i, vault[i], None, file, FALSE))
    BY <1>1, FirstReadFile, Zenon
<1>5. Holds(next)
    BY <1>3, Sentinels DEF First, Holds, TypeOK
<1>6. Begins(c, next)
    BY <1>1, <1>2, <1>3, <1>4, <1>5, Begun DEF Steps, Sent
<1>7. next.at = "slot.sent" /\ next.body = None /\ next.file = file
    BY DEF First
<1> HIDE DEF next
<1>8. BodyOpens(next) /\ BodyWraps(next) /\ BodyFits(next) /\ ReadFits(next)
    BY <1>7 DEF BodyOpens, BodyWraps, BodyFits, ReadFits
<1>9. FileFits(next)
    BY <1>1, <1>3, <1>7 DEF FileFits
<1> QED BY <1>6, <1>7, <1>8, <1>9 DEF Started, StartFits, Sent

LEMMA UnfileStarted ==
    ASSUME TypeOK, NEW c \in Calls, NEW i \in ItemIds, Known(i),
           NEW file \in vault[i].files, UnfileStart(c, i, file)
    PROVE  Started(c)
<1> DEFINE next == First(begun + 1, "unfile.sent", i, None, None, file, FALSE)
<1>1. /\ CanStart(c)
      /\ Start(c, [Idle EXCEPT !.at = "unfile.sent", !.item = i, !.file = file])
    BY DEF UnfileStart
<1>2. file \in File
    BY KnownItem DEF Item
<1>3. Start(c, First(0, "unfile.sent", i, None, None, file, FALSE))
    BY <1>1, FirstItemFile, Zenon
<1>4. Holds(next)
    BY <1>2, Sentinels DEF First, Holds, TypeOK
<1>5. Begins(c, next)
    BY <1>1, <1>2, <1>3, <1>4, Begun DEF Steps, Sent
<1>6. /\ next.at = "unfile.sent" /\ next.body = None /\ next.file = file
      /\ next.item = i
    BY DEF First
<1> HIDE DEF next
<1>7. BodyOpens(next) /\ BodyWraps(next) /\ BodyFits(next) /\ ReadFits(next)
    BY <1>6 DEF BodyOpens, BodyWraps, BodyFits, ReadFits
<1>8. FileFits(next)
    BY <1>6 DEF FileFits
<1> QED BY <1>5, <1>6, <1>7, <1>8 DEF Started, StartFits, Sent

\* Every command starts with a request that fits the vault it was built from.
LEMMA StartStarted == ASSUME TypeOK, NEW c \in Calls, StartStep(c) PROVE Started(c)
<1>1. CASE CreateStart(c)
    BY <1>1, CreateStarted
<1>2. CASE CreateLoginStart(c)
    BY <1>2, CreateLoginStarted
<1>3. CASE SyncStart(c)
  <2>1. CanStart(c) /\ Start(c, First(0, "sync.sent", None, None, None, None, FALSE))
      BY <1>3, FirstPlain, Zenon DEF SyncStart
  <2> QED BY <2>1, PlainStarted
<1>4. ASSUME NEW i \in ItemIds, DuplicateStart(c, i) PROVE Started(c)
    BY <1>4, DuplicateStarted
<1>5. ASSUME NEW i \in ItemIds, UpdateStart(c, i) PROVE Started(c)
    BY <1>5, UpdateStarted
<1>6. ASSUME NEW i \in ItemIds, UpdateLoginStart(c, i) PROVE Started(c)
    BY <1>6, UpdateLoginStarted
<1>7. ASSUME NEW i \in ItemIds, DeleteStart(c, i) PROVE Started(c)
  <2>1. CanStart(c) /\ Start(c, First(0, "delete.sent", i, None, None, None, FALSE))
      BY <1>7, FirstItem, Zenon DEF DeleteStart
  <2> QED BY <2>1, PlainStarted, Sentinels
<1>8. ASSUME NEW i \in ItemIds, NEW coll \in Colls,
             ShareStart(c, i, coll) \/ MoveStart(c, i, coll)
      PROVE  Started(c)
    BY <1>8, ShareStarted, MoveStarted
<1>9. ASSUME NEW i \in ItemIds, NEW flag \in BOOLEAN, FlagStart(c, i, flag)
      PROVE  Started(c)
  <2>1. CanStart(c) /\ Start(c, First(0, "flag.sent", i, None, None, None, flag))
      BY <1>9, FirstItemFlag, Zenon DEF FlagStart
  <2> QED BY <2>1, PlainStarted, Sentinels
<1>10. ASSUME NEW i \in ItemIds, NEW f \in FileIds, UploadStart(c, i, f)
       PROVE  Started(c)
    BY <1>10, UploadStarted
<1>11. ASSUME NEW i \in ItemIds, Known(i),
              NEW file \in vault[i].files, UnfileStart(c, i, file)
       PROVE  Started(c)
    BY <1>11, UnfileStarted
<1> QED BY <1>1, <1>2, <1>3, <1>4, <1>5, <1>6, <1>7, <1>8, <1>9, <1>10, <1>11
        DEF StartStep

-----------------------------------------------------------------------------
(* The type invariant.                                                     *)

LEMMA Moved ==
    ASSUME NEW call \in Call, NEW at \in Steps, NEW next,
           next = [call EXCEPT !.at = at]
    PROVE  /\ next \in Call /\ next.at = at
           /\ next.op = call.op /\ next.item = call.item
           /\ next.read = call.read /\ next.body = call.body
           /\ next.file = call.file /\ next.flag = call.flag
           /\ next.answer = call.answer /\ next.listing = call.listing
BY DEF Call

LEMMA CallType ==
    ASSUME TypeOK, NEW c \in Calls
    PROVE  /\ calls[c] \in Call /\ Holds(calls[c])
           /\ calls[c].item \in ItemIds \cup {None}
           /\ calls[c].read \in Item \cup {None}
           /\ calls[c].body \in Body \cup {None}
           /\ calls[c].file \in File \cup {None}
           /\ calls[c].flag \in BOOLEAN
           /\ calls[c].answer \in Item \cup {None}
           /\ calls[c].listing \in Vaults \cup {None}
           /\ calls[c].op \in 0..MaxCommands
<1>1. calls[c] \in Call /\ Holds(calls[c])
    BY DEF TypeOK
<1> QED BY <1>1 DEF Call

\* The item of an answered request is there.
LEMMA ServedCall ==
    ASSUME TypeOK, NEW c \in Calls, calls[c].item # None, Served(calls[c].item)
    PROVE  calls[c].item \in ItemIds /\ server[calls[c].item] \in Item
<1>1. calls[c].item \in ItemIds
    BY CallType
<1> QED BY <1>1, ServedItem

LEMMA BegunType ==
    ASSUME TypeOK, NEW c \in Calls, StartStep(c)
    PROVE  TypeOK'
<1>1. PICK next : Begins(c, next)
    BY StartStarted DEF Started
<1>2. calls' \in [Calls -> Call] /\ \A d \in Calls : Holds(calls'[d])
    BY <1>1, GoesTo DEF Begins
<1>3. begun' \in 0..MaxCommands
    BY <1>1, Sentinels DEF Begins, TypeOK
<1>4. UNCHANGED <<server, bytes, open, vault, cache, snaps, taken, lost, others>>
    BY <1>1 DEF Begins
<1> QED BY <1>2, <1>3, <1>4 DEF TypeOK

\* A handled request changes its item at most.
LEMMA ServesType ==
    ASSUME TypeOK, NEW c \in Calls, NEW i \in ItemIds,
           NEW new \in Item \cup {None, Gone}, NEW next \in Call, Holds(next),
           Serve(c, next),
           server' = [server EXCEPT ![i] = new] \/ UNCHANGED server,
           bytes' \in SUBSET FileIds, taken' \in SUBSET (FileIds \cup OwnKeys),
           lost' \in SUBSET ItemIds
    PROVE  TypeOK'
<1>1. server' \in [ItemIds -> Item \cup {None, Gone}]
    BY DEF TypeOK
<1> QED BY <1>1, ServeType

LEMMA CreatedItem ==
    ASSUME NEW body \in Body
    PROVE  [kind |-> body.kind, org |-> body.org,
            coll |-> IF body.org = None THEN None ELSE body.coll,
            wrap |-> body.wrap, fields |-> body.fields, past |-> body.past,
            files |-> {}, reprompt |-> body.reprompt, whole |-> TRUE,
            trashed |-> FALSE] \in Item
BY DEF Body, Item

LEMMA ServerCreatesType ==
    ASSUME TypeOK, NEW c \in Calls, NEW i \in ItemIds, ServerCreates(c, i)
    PROVE  TypeOK'
<1> DEFINE b == calls[c].body
           item == [kind |-> b.kind, org |-> b.org,
                    coll |-> IF b.org = None THEN None ELSE b.coll,
                    wrap |-> b.wrap, fields |-> b.fields, past |-> b.past,
                    files |-> {}, reprompt |-> b.reprompt, whole |-> TRUE,
                    trashed |-> FALSE]
           next == [calls[c] EXCEPT !.at = "create.splice", !.item = i,
                                    !.answer = item]
<1>1. b \in Body
    BY CallType DEF ServerCreates, Holds
<1>2. item \in Item
    BY <1>1, CreatedItem
<1>3. Serve(c, next) /\ server' = [server EXCEPT ![i] = item]
      /\ UNCHANGED <<bytes, taken, lost>>
    BY DEF ServerCreates
<1> HIDE DEF item
<1>4. calls[c] \in Call /\ "create.splice" \in Steps /\ calls[c].op # 0
    BY CallType DEF ServerCreates, Holds, Steps, Answered
<1>5. next = [calls[c] EXCEPT !.at = "create.splice", !.item = i, !.answer = item]
    OBVIOUS
<1> HIDE DEF next
<1>6. /\ next \in Call /\ next.at = "create.splice" /\ next.answer = item
      /\ next.item = i /\ next.op = calls[c].op
    BY <1>2, <1>4, <1>5 DEF Call
<1>7. Holds(next)
    BY <1>2, <1>4, <1>6, Sentinels DEF Holds
<1> QED BY <1>2, <1>3, <1>6, <1>7, ServesType DEF TypeOK

LEMMA ServerUpdatesType ==
    ASSUME TypeOK, NEW c \in Calls, ServerUpdates(c) PROVE TypeOK'
<1> DEFINE i == calls[c].item
           body == calls[c].body
           item(wrap) == Replaces(server[i], body, wrap)
           to(wrap) == [calls[c] EXCEPT !.at = "update.splice",
                                        !.answer = item(wrap)]
<1>1. /\ calls[c].at \in {"update.sent", "login.sent"} /\ Served(i)
      /\ UNCHANGED <<bytes, taken>>
    BY DEF ServerUpdates, Accepts
<1>0. PICK wrap \in KeptWraps(server[i], body) :
        /\ server' = [server EXCEPT ![i] = item(wrap)]
        /\ lost' = Losing(i, body, wrap) /\ Serve(c, to(wrap))
    BY DEF ServerUpdates
<1> DEFINE new == item(wrap)
           next == to(wrap)
<1>2. i # None /\ body \in Body /\ calls[c].op # 0
    BY <1>1, CallType DEF Holds
<1>3. i \in ItemIds /\ new \in Item /\ lost' \in SUBSET ItemIds
    BY <1>1, <1>2, <1>0, ServedCall, ReplacedItem, LosingType
<1>4. calls[c] \in Call /\ "update.splice" \in Steps
      /\ next = [calls[c] EXCEPT !.at = "update.splice", !.answer = new]
      /\ server' = [server EXCEPT ![i] = new] /\ Serve(c, next)
    BY <1>0, CallType DEF Steps, Answered
<1> HIDE DEF item, to, new, next
<1>5. /\ next \in Call /\ next.at = "update.splice" /\ next.answer = new
      /\ next.item = i /\ next.op = calls[c].op
    BY <1>3, <1>4 DEF Call
<1>6. Holds(next)
    BY <1>2, <1>3, <1>5, Sentinels DEF Holds
<1> QED BY <1>1, <1>3, <1>4, <1>5, <1>6, ServesType DEF TypeOK

LEMMA ServerSharesType ==
    ASSUME TypeOK, NEW c \in Calls, ServerShares(c) PROVE TypeOK'
<1> DEFINE i == calls[c].item
           body == calls[c].body
           shared(wrap) == [Replaces(server[i], body, wrap) EXCEPT
                              !.coll = body.coll]
           next == [calls[c] EXCEPT !.at = "share.mark"]
<1>1. /\ calls[c].at = "share.sent" /\ Served(i)
      /\ Serve(c, next) /\ UNCHANGED <<bytes, taken>>
    BY DEF ServerShares, Accepts
<1>0. PICK wrap \in KeptWraps(server[i], body) :
        /\ server' = [server EXCEPT ![i] = shared(wrap)]
        /\ lost' = Losing(i, body, wrap)
    BY DEF ServerShares
<1> DEFINE item == shared(wrap)
<1>2. i # None /\ body \in Body /\ calls[c].op # 0 /\ body.org # None
    BY <1>1, CallType DEF Holds
<1>3. i \in ItemIds /\ Replaces(server[i], body, wrap) \in Item
      /\ lost' \in SUBSET ItemIds
    BY <1>1, <1>2, <1>0, ServedCall, ReplacedItem, LosingType
<1>4. item \in Item /\ server' = [server EXCEPT ![i] = item]
    BY <1>2, <1>3, <1>0 DEF Item, Body
<1>5. /\ next \in Call /\ next.at = "share.mark" /\ next.item = i
      /\ next.body = body /\ next.op = calls[c].op
    BY CallType, Moved DEF Steps, Answered
<1> HIDE DEF next, item, shared
<1>6. Holds(next)
    BY <1>2, <1>5 DEF Holds
<1> QED BY <1>1, <1>3, <1>4, <1>5, <1>6, ServesType DEF TypeOK

\* The requests that change one thing of an item, or delete it.
LEMMA ServerChangesType ==
    ASSUME TypeOK, NEW c \in Calls,
           ServerMoves(c) \/ ServerFlags(c) \/ ServerDeletes(c) \/ ServerUnfiles(c)
    PROVE  TypeOK'
<1> DEFINE i == calls[c].item
           at == CASE ServerMoves(c) -> "move.splice"
                   [] ServerFlags(c) -> "flag.splice"
                   [] ServerDeletes(c) -> "delete.splice"
                   [] ServerUnfiles(c) -> "unfile.splice"
           next(to) == [calls[c] EXCEPT !.at = to]
<1>1. Served(i) /\ i # None /\ calls[c].op # 0
    BY CallType DEF ServerMoves, ServerFlags, ServerDeletes, ServerUnfiles, Holds
<1>2. i \in ItemIds /\ server[i] \in Item
    BY <1>1, ServedCall
<1>3. ASSUME NEW to \in Answered
      PROVE  /\ next(to) \in Call /\ next(to).at = to /\ next(to).item = i
             /\ next(to).read = calls[c].read /\ next(to).file = calls[c].file
             /\ next(to).op = calls[c].op
    BY CallType, Moved DEF Steps
<1> HIDE DEF next
<1>4. CASE ServerMoves(c)
  <2> DEFINE item == [server[i] EXCEPT !.coll = calls[c].read.coll]
  <2>1. /\ calls[c].read \in Item /\ calls[c].read.coll # None
      BY <1>4, CallType DEF ServerMoves, Holds
  <2>2. item \in Item
      BY <1>2, <2>1 DEF Item
  <2>3. server' = [server EXCEPT ![i] = item] /\ Serve(c, next("move.splice"))
        /\ UNCHANGED <<bytes, taken, lost>>
      BY <1>4 DEF ServerMoves, next
  <2> HIDE DEF item
  <2>4. next("move.splice") \in Call /\ Holds(next("move.splice"))
      BY <1>1, <1>3, <2>1, Sentinels DEF Holds, Answered
  <2> QED BY <1>2, <2>2, <2>3, <2>4, ServesType DEF TypeOK
<1>5. CASE ServerFlags(c)
  <2> DEFINE item == [server[i] EXCEPT !.trashed = calls[c].flag]
  <2>1. item \in Item
      BY <1>2, CallType DEF Item
  <2>2. server' = [server EXCEPT ![i] = item] /\ Serve(c, next("flag.splice"))
        /\ UNCHANGED <<bytes, taken, lost>>
      BY <1>5 DEF ServerFlags, next
  <2> HIDE DEF item
  <2>3. next("flag.splice") \in Call /\ Holds(next("flag.splice"))
      BY <1>1, <1>3 DEF Holds, Answered
  <2> QED BY <1>2, <2>1, <2>2, <2>3, ServesType DEF TypeOK
<1>6. CASE ServerDeletes(c)
  <2>1. /\ server' = [server EXCEPT ![i] = Gone] /\ Serve(c, next("delete.splice"))
        /\ UNCHANGED <<taken, lost>> /\ bytes' \subseteq bytes
      BY <1>6 DEF ServerDeletes, next
  <2>2. next("delete.splice") \in Call /\ Holds(next("delete.splice"))
      BY <1>1, <1>3 DEF Holds, Answered
  <2> QED BY <1>2, <2>1, <2>2, ServesType DEF TypeOK
<1>7. CASE ServerUnfiles(c)
  <2> DEFINE item == Without(server[i], calls[c].file)
  <2>1. item \in Item
      BY <1>2 DEF Without, Item
  <2>2. /\ server' = [server EXCEPT ![i] = item] /\ Serve(c, next("unfile.splice"))
        /\ UNCHANGED <<taken, lost>> /\ bytes' \subseteq bytes
      BY <1>7 DEF ServerUnfiles, next
  <2>3. calls[c].file # None
      BY <1>7, CallType DEF ServerUnfiles, Holds
  <2> HIDE DEF item
  <2>4. next("unfile.splice") \in Call /\ Holds(next("unfile.splice"))
      BY <1>1, <1>3, <2>3 DEF Holds, Answered
  <2> QED BY <1>2, <2>1, <2>2, <2>4, ServesType DEF TypeOK
<1> QED BY <1>4, <1>5, <1>6, <1>7

LEMMA ServerMakesSlotType ==
    ASSUME TypeOK, NEW c \in Calls, ServerMakesSlot(c) PROVE TypeOK'
<1> DEFINE i == calls[c].item
           item == [server[i] EXCEPT !.files = @ \cup {calls[c].file}]
           next == [calls[c] EXCEPT !.at = "data.sent", !.answer = item]
<1>1. /\ calls[c].at = "slot.sent" /\ Served(i)
      /\ server' = [server EXCEPT ![i] = item]
      /\ taken' = taken \cup {calls[c].file.id}
      /\ Serve(c, next) /\ UNCHANGED <<bytes, lost>>
    BY DEF ServerMakesSlot
<1>2. i # None /\ calls[c].file \in File /\ calls[c].op # 0 /\ calls[c].file # None
    BY <1>1, CallType, Sentinels DEF Holds
<1>3. i \in ItemIds /\ server[i] \in Item
    BY <1>1, <1>2, ServedCall
<1>4. item \in Item
    BY <1>2, <1>3 DEF Item
<1>5. calls[c] \in Call /\ "data.sent" \in Steps
      /\ next = [calls[c] EXCEPT !.at = "data.sent", !.answer = item]
    BY CallType DEF Steps, Sent
<1> HIDE DEF item, next
<1>6. /\ next \in Call /\ next.at = "data.sent" /\ next.answer = item
      /\ next.item = i /\ next.op = calls[c].op /\ next.file = calls[c].file
    BY <1>4, <1>5 DEF Call
<1>7. Holds(next)
    BY <1>2, <1>4, <1>6, Sentinels DEF Holds
<1>8. taken' \in SUBSET (FileIds \cup OwnKeys)
    BY <1>1, <1>2 DEF TypeOK, File
<1> QED BY <1>1, <1>3, <1>4, <1>6, <1>7, <1>8, ServesType DEF TypeOK

LEMMA ServerStoresType ==
    ASSUME TypeOK, NEW c \in Calls, ServerStores(c) PROVE TypeOK'
<1> DEFINE next == [calls[c] EXCEPT !.at = "upload.splice"]
<1>1. /\ calls[c].at = "data.sent"
      /\ bytes' = bytes \cup {calls[c].file.id}
      /\ Serve(c, next) /\ UNCHANGED <<server, taken, lost>>
    BY DEF ServerStores
<1>2. /\ calls[c].item \in ItemIds /\ calls[c].item # None /\ calls[c].op # 0
      /\ calls[c].file \in File /\ calls[c].file # None /\ calls[c].answer # None
    BY <1>1, CallType, Sentinels DEF Holds
<1>3. /\ next \in Call /\ next.at = "upload.splice" /\ next.answer = calls[c].answer
      /\ next.item = calls[c].item /\ next.op = calls[c].op
      /\ next.file = calls[c].file
    BY CallType, Moved DEF Steps, Answered
<1> HIDE DEF next
<1>4. Holds(next)
    BY <1>2, <1>3 DEF Holds
<1>5. bytes' \in SUBSET FileIds
    BY <1>1, <1>2 DEF TypeOK, File
<1> QED BY <1>1, <1>3, <1>4, <1>5, ServeType DEF TypeOK

LEMMA ListingType == TypeOK => Listing \in Vaults
BY ServedItem DEF Listing, Vaults

LEMMA ServerListsType ==
    ASSUME TypeOK, NEW c \in Calls, ServerLists(c) PROVE TypeOK'
<1> DEFINE next == [calls[c] EXCEPT !.at = "sync.apply", !.listing = Listing]
<1>1. /\ calls[c].at = "sync.sent"
      /\ Serve(c, next) /\ UNCHANGED <<server, bytes, taken, lost>>
    BY DEF ServerLists
<1>2. /\ calls[c] \in Call /\ "sync.apply" \in Steps /\ calls[c].op # 0
      /\ next = [calls[c] EXCEPT !.at = "sync.apply", !.listing = Listing]
    BY <1>1, CallType DEF Steps, Answered, Holds
<1>3. Listing \in Vaults
    BY ListingType
<1> HIDE DEF next
<1>4. /\ next \in Call /\ next.at = "sync.apply" /\ next.listing = Listing
      /\ next.op = calls[c].op
    BY <1>2, <1>3 DEF Call
<1>5. Holds(next)
    BY <1>2, <1>3, <1>4, Sentinels DEF Holds
<1> QED BY <1>1, <1>4, <1>5, ServeType DEF TypeOK

\* What an answer makes of the entry in memory.
LEMMA SplicesType ==
    ASSUME TypeOK, NEW c \in Calls,
           \/ UpdateSplices(c) \/ ShareSplices(c) \/ MoveSplices(c)
           \/ FlagSplices(c) \/ DeleteSplices(c) \/ UploadSplices(c)
           \/ UnfileSplices(c)
    PROVE  TypeOK'
<1> DEFINE i == calls[c].item
<1>1. i \in ItemIds
    BY CallType DEF UpdateSplices, ShareSplices, MoveSplices, FlagSplices,
                    DeleteSplices, UploadSplices, UnfileSplices, Holds
<1>2. Known(i) => vault[i] \in Item
    BY <1>1, KnownItem
<1>3. CASE UpdateSplices(c) \/ UploadSplices(c)
  <2>1. Splice(c, i, calls[c].answer) /\ calls[c].answer \in Item
      BY <1>3, CallType DEF UpdateSplices, UploadSplices, Holds
  <2> QED BY <1>1, <2>1, SpliceType
<1>4. CASE ShareSplices(c)
  <2> DEFINE new == IF Known(i)
                    THEN [vault[i] EXCEPT !.org = calls[c].body.org,
                                          !.coll = calls[c].body.coll]
                    ELSE None
  <2>1. Splice(c, i, new) /\ calls[c].body \in Body
      BY <1>4, CallType DEF ShareSplices, Holds
  <2>2. Known(i) => new \in Item
      BY <1>2, <2>1 DEF Body, Item
  <2> HIDE DEF new
  <2> QED BY <1>1, <2>1, <2>2, SpliceType
<1>5. CASE MoveSplices(c)
  <2> DEFINE new == IF Known(i)
                    THEN [vault[i] EXCEPT !.coll = calls[c].read.coll] ELSE None
  <2>1. Splice(c, i, new) /\ calls[c].read \in Item
      BY <1>5, CallType DEF MoveSplices, Holds
  <2>2. Known(i) => new \in Item
      BY <1>2, <2>1 DEF Item
  <2> HIDE DEF new
  <2> QED BY <1>1, <2>1, <2>2, SpliceType
<1>6. CASE FlagSplices(c)
  <2> DEFINE new == IF Known(i)
                    THEN [vault[i] EXCEPT !.trashed = calls[c].flag] ELSE None
  <2>1. Splice(c, i, new) /\ calls[c].flag \in BOOLEAN
      BY <1>6, CallType DEF FlagSplices
  <2>2. Known(i) => new \in Item
      BY <1>2, <2>1 DEF Item
  <2> HIDE DEF new
  <2> QED BY <1>1, <2>1, <2>2, SpliceType
<1>7. CASE DeleteSplices(c)
    BY <1>1, <1>7, SpliceType DEF DeleteSplices
<1>8. CASE UnfileSplices(c)
  <2> DEFINE new == IF Known(i) THEN Without(vault[i], calls[c].file) ELSE None
  <2>1. Splice(c, i, new)
      BY <1>8 DEF UnfileSplices
  <2>2. Known(i) => new \in Item
      BY <1>2 DEF Item, Without
  <2> HIDE DEF new
  <2> QED BY <1>1, <2>1, <2>2, SpliceType
<1> QED BY <1>3, <1>4, <1>5, <1>6, <1>7, <1>8

LEMMA CreateSplicesType ==
    ASSUME TypeOK, NEW c \in Calls, CreateSplices(c) PROVE TypeOK'
<1>1. calls' \in [Calls -> Call] /\ \A d \in Calls : Holds(calls'[d])
    BY ReturnType DEF CreateSplices
<1>2. calls[c].item \in ItemIds /\ calls[c].answer \in Item
    BY CallType DEF CreateSplices, Holds
<1>3. vault' \in Vaults \cup {None}
    BY <1>2 DEF CreateSplices, TypeOK, Vaults
<1>4. UNCHANGED <<server, bytes, open, cache, snaps, taken, lost, begun, others>>
    BY DEF CreateSplices, disk, count
<1> QED BY <1>1, <1>3, <1>4 DEF TypeOK

LEMMA NewRowType ==
    ASSUME TypeOK, NEW c \in Calls, calls[c].at = "share.save"
    PROVE  NewRow(calls[c]) \in Row
<1>1. /\ calls[c].op \in 1..MaxCommands /\ calls[c].item \in ItemIds
      /\ calls[c].read \in Item
    BY CallType, Sentinels DEF Holds
<1> QED BY <1>1 DEF NewRow, Row

LEMMA MarkedType ==
    ASSUME NEW rows \in SUBSET Row, NEW call
    PROVE  Marked(rows, call) \in SUBSET Row
<1>1. ASSUME NEW r \in Row, NEW done \in BOOLEAN PROVE [r EXCEPT !.done = done] \in Row
    BY DEF Row
<1>2. ASSUME NEW r \in Row PROVE (r.done \/ r.op = call.op) \in BOOLEAN
    BY Zenon DEF Row
<1>3. ASSUME NEW r \in Row PROVE [r EXCEPT !.done = @ \/ r.op = call.op] \in Row
    BY <1>1, <1>2
<1> QED BY <1>3 DEF Marked

LEMMA ShareLogsType ==
    ASSUME TypeOK, NEW c \in Calls, ShareSaves(c) \/ ShareMarks(c)
    PROVE  TypeOK'
<1> DEFINE next(to) == [calls[c] EXCEPT !.at = to]
<1>1. /\ calls[c].item # None /\ calls[c].body # None /\ calls[c].op # 0
      /\ calls[c].body.org # None
    BY CallType DEF ShareSaves, ShareMarks, Holds
<1>2. ASSUME NEW to \in {"share.sent", "share.splice"}
      PROVE  /\ next(to) \in Call /\ next(to).at = to
             /\ next(to).item = calls[c].item /\ next(to).body = calls[c].body
             /\ next(to).op = calls[c].op
    BY CallType, Moved DEF Steps, Sent
<1> HIDE DEF next
<1>3. ASSUME NEW to \in {"share.sent", "share.splice"} PROVE Holds(next(to))
    BY <1>1, <1>2 DEF Holds
<1>4. /\ snaps' \in SUBSET Row
      /\ \E to \in {"share.sent", "share.splice"} : calls' = [calls EXCEPT ![c] = next(to)]
  <2>1. CASE ShareSaves(c)
      BY <2>1, NewRowType DEF ShareSaves, Goto, next, TypeOK
  <2>2. CASE ShareMarks(c)
      BY <2>2, MarkedType DEF ShareMarks, Goto, next, TypeOK
  <2> QED BY <2>1, <2>2
<1>5. calls' \in [Calls -> Call] /\ \A d \in Calls : Holds(calls'[d])
    BY <1>2, <1>3, <1>4, GoesTo
<1>6. UNCHANGED <<server, bytes, open, vault, cache, taken, lost, begun, others>>
    BY DEF ShareSaves, ShareMarks, count
<1> QED BY <1>4, <1>5, <1>6 DEF TypeOK

SessionStep ==
    LoadsCached \/ Unlock \/ Lock \/ Logout \/ Crash

LEMMA SessionType == ASSUME TypeOK, SessionStep PROVE TypeOK'
<1>1. UNCHANGED <<server, bytes, taken, lost, begun, others>>
    BY DEF SessionStep, LoadsCached, Unlock, Lock, Logout, Crash, count, disk
<1>2. calls' \in [Calls -> Call] /\ \A d \in Calls : Holds(calls'[d])
    BY IdleType DEF SessionStep, LoadsCached, Unlock, Lock, Logout, Crash, TypeOK
<1>3. open' \in BOOLEAN
    BY Zenon DEF SessionStep, LoadsCached, Unlock, Lock, Logout, Crash, TypeOK
<1>4. vault' \in Vaults \cup {None} /\ cache' \in Vaults \cup {None}
      /\ snaps' \in SUBSET Row
    BY DEF SessionStep, LoadsCached, Unlock, Lock, Logout, Crash, disk, TypeOK
<1> QED BY <1>1, <1>2, <1>3, <1>4 DEF TypeOK

LEMMA SyncAppliesType == ASSUME TypeOK, NEW c \in Calls, SyncApplies(c) PROVE TypeOK'
<1>1. calls' \in [Calls -> Call] /\ \A d \in Calls : Holds(calls'[d])
    BY ReturnType DEF SyncApplies
<1>2. calls[c].listing \in Vaults
    BY CallType DEF SyncApplies, Holds
<1>3. vault' \in Vaults \cup {None} /\ cache' \in Vaults \cup {None}
    BY <1>2 DEF SyncApplies, TypeOK
<1>4. UNCHANGED <<server, bytes, open, snaps, taken, lost, begun, others>>
    BY DEF SyncApplies, count
<1> QED BY <1>1, <1>3, <1>4 DEF TypeOK

LEMMA RequestFailsType == ASSUME TypeOK, NEW c \in Calls, RequestFails(c) PROVE TypeOK'
<1>1. calls' \in [Calls -> Call] /\ \A d \in Calls : Holds(calls'[d])
    BY ReturnType DEF RequestFails
<1>2. UNCHANGED <<server, bytes, open, vault, cache, snaps, taken, lost, begun, others>>
    BY DEF RequestFails, count, disk
<1> QED BY <1>1, <1>2 DEF TypeOK

\* What other clients make of an item.
Edited(item, text) ==
    LET key == RealKey(item)
        old == item.fields["password"]
    IN  [item EXCEPT
           !.fields = [@ EXCEPT !["password"] = Seal(text, key)],
           !.past = Truncate(IF old = None THEN @ ELSE <<old>> \o @)]
Wrapped(item, own) ==
    LET key == RealKey(item)
        under(s) == IF s # None /\ s.under = key THEN Seal(s.text, own) ELSE s
    IN  [item EXCEPT
           !.wrap = EncryptCipherKey(own, OwningKey(item, Everyones)),
           !.fields = [p \in Parts |-> under(@[p])],
           !.past = [n \in DOMAIN @ |-> under(@[n])],
           !.files = {IF f.cover = key THEN [f EXCEPT !.cover = own] ELSE f :
                        f \in @}]

LEMMA EditedType ==
    ASSUME NEW item \in Item, NEW text \in Texts
    PROVE  /\ Edited(item, text) \in Item
           /\ Edited(item, text).org = item.org
           /\ Edited(item, text).coll = item.coll
           /\ Edited(item, text).wrap = item.wrap
           /\ Edited(item, text).files = item.files
           /\ Edited(item, text).kind = item.kind
           /\ Edited(item, text).fields
                = [item.fields EXCEPT !["password"] = Seal(text, RealKey(item))]
<1> DEFINE key == RealKey(item)
           old == item.fields["password"]
           fields == [item.fields EXCEPT !["password"] = Seal(text, key)]
           past == Truncate(IF old = None THEN item.past ELSE <<old>> \o item.past)
<1>1. key \in Keys
    BY CipherKeyType DEF Item
<1>2. /\ item.fields \in Fields /\ item.past \in Seq(Sealed)
      /\ old \in Sealed \cup {None}
    BY DEF Item, Fields, Parts
<1>3. fields \in Fields
  <2>1. Seal(text, key) \in Sealed
      BY <1>1 DEF Seal, Sealed
  <2> QED BY <1>2, <2>1 DEF Fields, Parts
<1>4. past \in Seq(Sealed)
  <2>1. (IF old = None THEN item.past ELSE <<old>> \o item.past) \in Seq(Sealed)
    <3>1. CASE old = None
        BY <1>2, <3>1
    <3>2. CASE old # None
      <4>1. <<old>> \in Seq(Sealed)
          BY <1>2, <3>2
      <4> QED BY <1>2, <3>2, <4>1
    <3> QED BY <3>1, <3>2
  <2> QED BY <2>1, TruncateType
<1>5. Edited(item, text) = [item EXCEPT !.fields = fields, !.past = past]
    BY DEF Edited
<1> HIDE DEF fields, past
<1>6. /\ Edited(item, text) \in Item /\ Edited(item, text).org = item.org
      /\ Edited(item, text).coll = item.coll /\ Edited(item, text).wrap = item.wrap
      /\ Edited(item, text).files = item.files
      /\ Edited(item, text).kind = item.kind
      /\ Edited(item, text).fields = fields
    BY <1>3, <1>4, <1>5 DEF Item
<1> QED BY <1>6 DEF fields

LEMMA WrappedType ==
    ASSUME NEW item \in Item, NEW own \in OwnKeys
    PROVE  /\ Wrapped(item, own) \in Item
           /\ Wrapped(item, own).org = item.org
           /\ Wrapped(item, own).coll = item.coll
           /\ Wrapped(item, own).kind = item.kind
           /\ Wrapped(item, own).wrap
                = [under |-> Owned(item.org, Orgs), key |-> own]
           /\ {f.id : f \in Wrapped(item, own).files} = {f.id : f \in item.files}
           /\ \A p \in Parts : item.fields[p] # None
                /\ item.fields[p].under = RealKey(item)
                => Wrapped(item, own).fields[p].under = own
           /\ \A p \in Parts :
                item.fields[p] = None => Wrapped(item, own).fields[p] = None
<1> DEFINE key == RealKey(item)
           under(s) == IF s # None /\ s.under = key THEN Seal(s.text, own) ELSE s
           covered(f) == IF f.cover = key THEN [f EXCEPT !.cover = own] ELSE f
           wrap == EncryptCipherKey(own, OwningKey(item, Everyones))
           fields == [p \in Parts |-> under(item.fields[p])]
           past == [n \in DOMAIN item.past |-> under(item.past[n])]
           files == {covered(f) : f \in item.files}
<1>1. own \in Keys /\ own # None
    BY DEF Keys
<1>2. /\ item.fields \in Fields /\ item.past \in Seq(Sealed)
      /\ item.files \in SUBSET File
    BY DEF Item
<1>3. ASSUME NEW s \in Sealed \cup {None}
      PROVE  /\ under(s) \in Sealed \cup {None} /\ (s # None => under(s) \in Sealed)
             /\ s = None => under(s) = None
             /\ s # None /\ s.under = key => under(s).under = own
    BY <1>1 DEF Seal, Sealed
<1>4. ASSUME NEW f \in File PROVE covered(f) \in File /\ covered(f).id = f.id
    BY <1>1 DEF File
<1>5. wrap = [under |-> Owned(item.org, Orgs), key |-> own] /\ wrap \in Wrap
    BY RingKeys, OwnedIsKey DEF EncryptCipherKey, Wrap, Owners, Keys
<1>6. Wrapped(item, own)
        = [item EXCEPT !.wrap = wrap, !.fields = fields, !.past = past,
                       !.files = files]
    BY DEF Wrapped
<1> HIDE DEF under, covered, wrap, key
<1>7. fields \in Fields
    BY <1>2, <1>3 DEF Fields, Parts
<1>8. past \in Seq(Sealed)
  <2>1. \A n \in 1..Len(item.past) : under(item.past[n]) \in Sealed
      BY <1>2, <1>3
  <2> QED BY <1>2, <2>1
<1>9. files \in SUBSET File /\ {f.id : f \in files} = {f.id : f \in item.files}
    BY <1>2, <1>4
<1>10. \A p \in Parts :
         /\ item.fields[p] # None /\ item.fields[p].under = key => fields[p].under = own
         /\ item.fields[p] = None => fields[p] = None
    BY <1>2, <1>3 DEF Fields
<1> HIDE DEF fields, past, files
<1>11. /\ Wrapped(item, own) \in Item /\ Wrapped(item, own).org = item.org
       /\ Wrapped(item, own).coll = item.coll /\ Wrapped(item, own).wrap = wrap
       /\ Wrapped(item, own).files = files /\ Wrapped(item, own).fields = fields
       /\ Wrapped(item, own).kind = item.kind
    BY <1>5, <1>6, <1>7, <1>8, <1>9 DEF Item
<1> QED BY <1>5, <1>9, <1>10, <1>11 DEF key

\* Another client's change is of one item.
LEMMA OthersStep ==
    ASSUME TypeOK, NEW i \in ItemIds
    PROVE  /\ \A text \in Texts : OtherClientEdits(i, text) =>
                /\ Served(i) /\ server[i] \in Item
                /\ Elsewhere(i, Edited(server[i], text)) /\ UNCHANGED taken
           /\ \A own \in OwnKeys : OtherClientWraps(i, own) =>
                /\ Served(i) /\ server[i] \in Item /\ server[i].wrap = None
                /\ own \notin taken /\ taken' = taken \cup {own}
                /\ Elsewhere(i, Wrapped(server[i], own))
BY ServedItem DEF OtherClientEdits, OtherClientWraps, Edited, Wrapped

LEMMA ElsewhereType ==
    ASSUME TypeOK, NEW i \in ItemIds, NEW item \in Item, Elsewhere(i, item),
           taken' \in SUBSET (FileIds \cup OwnKeys)
    PROVE  TypeOK'
<1>1. server' \in [ItemIds -> Item \cup {None, Gone}]
    BY DEF Elsewhere, TypeOK
<1>2. others' \in 0..MaxOthers
    BY Sentinels DEF Elsewhere, TypeOK
<1>3. UNCHANGED <<bytes, open, vault, cache, snaps, lost, calls, begun>>
    BY DEF Elsewhere, disk
<1> QED BY <1>1, <1>2, <1>3 DEF TypeOK

LEMMA OthersType ==
    ASSUME TypeOK, NEW i \in ItemIds,
           \/ \E text \in Texts : OtherClientEdits(i, text)
           \/ \E own \in OwnKeys : OtherClientWraps(i, own)
    PROVE  TypeOK'
<1>1. ASSUME NEW text \in Texts, OtherClientEdits(i, text) PROVE TypeOK'
    BY <1>1, OthersStep, EditedType, ElsewhereType DEF TypeOK
<1>2. ASSUME NEW own \in OwnKeys, OtherClientWraps(i, own) PROVE TypeOK'
  <2>1. taken' \in SUBSET (FileIds \cup OwnKeys)
      BY <1>2, OthersStep DEF TypeOK
  <2> QED BY <1>2, <2>1, OthersStep, WrappedType, ElsewhereType
<1> QED BY <1>1, <1>2

LEMMA InitType == Init => TypeOK
<1> SUFFICES ASSUME Init PROVE TypeOK
    OBVIOUS
<1>1. server \in Vaults /\ vault = server /\ cache = server
    BY StartsAssumption DEF Init
<1>2. server \in [ItemIds -> Item \cup {None, Gone}]
    BY <1>1 DEF Vaults
<1>3. \A i \in Ids(server) : server[i] \in Item
    BY <1>1 DEF Ids, Vaults
<1>4. bytes \in SUBSET FileIds
  <2>1. \A i \in Ids(server) : server[i].files \subseteq File
      BY <1>3 DEF Item
  <2> QED BY <2>1 DEF Init, File
<1>5. taken \in SUBSET (FileIds \cup OwnKeys)
  <2>1. ASSUME NEW item \in Item PROVE Marks(item) \subseteq FileIds \cup OwnKeys
      BY DEF Marks, Item, File, Wrap
  <2> QED BY <1>3, <2>1 DEF Init, Taken
<1>6. open \in BOOLEAN
    BY Zenon DEF Init
<1>7. calls \in [Calls -> Call] /\ \A c \in Calls : Holds(calls[c])
    BY IdleType DEF Init
<1>8. snaps = {} /\ lost = {} /\ begun \in 0..MaxCommands /\ others \in 0..MaxOthers
    BY Sentinels DEF Init
<1> QED BY <1>1, <1>2, <1>4, <1>5, <1>6, <1>7, <1>8 DEF TypeOK

\* The steps that change what the server has.
ServerStep(c) ==
    \/ \E i \in ItemIds : ServerCreates(c, i)
    \/ ServerUpdates(c) \/ ServerShares(c) \/ ServerMoves(c) \/ ServerFlags(c)
    \/ ServerDeletes(c) \/ ServerUnfiles(c) \/ ServerMakesSlot(c)
    \/ ServerStores(c) \/ ServerLists(c)

\* The last windows, but for a creation's and a sync's.
SpliceStep(c) ==
    \/ UpdateSplices(c) \/ ShareSplices(c) \/ MoveSplices(c)
    \/ FlagSplices(c) \/ DeleteSplices(c) \/ UploadSplices(c)
    \/ UnfileSplices(c)

OthersAct ==
    \/ \E i \in ItemIds, text \in Texts : OtherClientEdits(i, text)
    \/ \E i \in ItemIds, own \in OwnKeys : OtherClientWraps(i, own)

LEMMA Steps1 ==
    ASSUME Next
    PROVE  \/ \E c \in Calls :
                \/ StartStep(c) \/ ServerStep(c) \/ SpliceStep(c)
                \/ CreateSplices(c) \/ ShareSaves(c) \/ ShareMarks(c)
                \/ SyncApplies(c) \/ RequestFails(c)
           \/ SessionStep
           \/ OthersAct
BY DEF Next, StartStep, ServerStep, SpliceStep, SessionStep, OthersAct

LEMMA NextType == TypeOK /\ [Next]_vars => TypeOK'
<1> SUFFICES ASSUME TypeOK, [Next]_vars PROVE TypeOK'
    OBVIOUS
<1>1. ASSUME NEW c \in Calls, StartStep(c) PROVE TypeOK'
    BY <1>1, BegunType
<1>2. ASSUME NEW c \in Calls, ServerStep(c) PROVE TypeOK'
    BY <1>2, ServerCreatesType, ServerUpdatesType, ServerSharesType,
       ServerChangesType, ServerMakesSlotType, ServerStoresType, ServerListsType
       DEF ServerStep
<1>3. ASSUME NEW c \in Calls, SpliceStep(c) PROVE TypeOK'
    BY <1>3, SplicesType DEF SpliceStep
<1>4. ASSUME NEW c \in Calls,
             \/ CreateSplices(c) \/ ShareSaves(c) \/ ShareMarks(c)
             \/ SyncApplies(c) \/ RequestFails(c)
      PROVE  TypeOK'
    BY <1>4, CreateSplicesType, ShareLogsType, SyncAppliesType, RequestFailsType
<1>5. CASE SessionStep
    BY <1>5, SessionType
<1>6. CASE OthersAct
    BY <1>6, OthersType DEF OthersAct
<1>7. CASE UNCHANGED vars
    BY <1>7 DEF vars, disk, count, TypeOK
<1> QED BY <1>1, <1>2, <1>3, <1>4, <1>5, <1>6, <1>7, Steps1

\* Every variable has its type, and an invocation holds what its next step
\* reads, at every step of every command.
THEOREM TypeCorrect == Spec => []TypeOK
<1>1. Init => TypeOK
    BY InitType
<1>2. TypeOK /\ [Next]_vars => TypeOK'
    BY NextType
<1> QED BY <1>1, <1>2, PTL DEF Spec

-----------------------------------------------------------------------------
(* What a step does, for the invariants that follow.                       *)

\* The call moves on and keeps what it was started with.
Advances(c, next, at) ==
    /\ next \in Call /\ calls' = [calls EXCEPT ![c] = next]
    /\ next.at = at /\ next.op = calls[c].op
    /\ next.read = calls[c].read /\ next.body = calls[c].body
    /\ next.file = calls[c].file

Creates(c, i, new, next) ==
    /\ calls[c].at = "create.sent" /\ calls[c].body \in Body /\ server[i] = None
    /\ new \in Item
    /\ new.org = calls[c].body.org /\ new.wrap = calls[c].body.wrap
    /\ new.fields = calls[c].body.fields /\ new.files = {}
    /\ new.kind = calls[c].body.kind
    /\ new.coll = IF new.org = None THEN None ELSE calls[c].body.coll
    /\ server' = [server EXCEPT ![i] = new]
    /\ Advances(c, next, "create.splice")
    /\ next.item = i /\ next.answer = new /\ next.listing = calls[c].listing
    /\ UNCHANGED <<bytes, open, vault, cache, snaps, taken, lost, begun, others>>

\* A request that names an item the server has.
Addressed(c, i) ==
    i = calls[c].item /\ i \in ItemIds /\ Served(i) /\ server[i] \in Item

Rewrites(c, i, new, next) ==
    /\ Addressed(c, i) /\ calls[c].body \in Body
    /\ server[i].org \in {None, calls[c].body.org}
    /\ new \in Item
    /\ new.org = calls[c].body.org
    /\ new.wrap \in KeptWraps(server[i], calls[c].body)
    /\ lost' = Losing(i, calls[c].body, new.wrap)
    /\ new.fields = calls[c].body.fields /\ new.files = server[i].files
    /\ new.kind = calls[c].body.kind /\ new.past = calls[c].body.past
    /\ new.reprompt = calls[c].body.reprompt
    /\ \/ /\ calls[c].at \in {"update.sent", "login.sent"}
          /\ Advances(c, next, "update.splice")
          /\ new.coll = server[i].coll /\ next.answer = new
       \/ /\ calls[c].at = "share.sent" /\ Advances(c, next, "share.mark")
          /\ new.coll = calls[c].body.coll /\ next.answer = calls[c].answer
    /\ server' = [server EXCEPT ![i] = new]
    /\ next.item = i /\ next.listing = calls[c].listing
    /\ UNCHANGED <<bytes, open, vault, cache, snaps, taken, begun, others>>

Alters(c, i, new, next) ==
    /\ Addressed(c, i)
    /\ new \in Item
    /\ new.org = server[i].org /\ new.wrap = server[i].wrap
    /\ new.fields = server[i].fields /\ new.kind = server[i].kind
    /\ \/ /\ calls[c].at = "move.sent" /\ Advances(c, next, "move.splice")
          /\ new.coll = calls[c].read.coll /\ new.files = server[i].files
          /\ next.answer = calls[c].answer /\ UNCHANGED <<bytes, taken>>
       \/ /\ calls[c].at = "flag.sent" /\ Advances(c, next, "flag.splice")
          /\ new.coll = server[i].coll /\ new.files = server[i].files
          /\ next.answer = calls[c].answer /\ UNCHANGED <<bytes, taken>>
       \/ /\ calls[c].at = "unfile.sent" /\ Advances(c, next, "unfile.splice")
          /\ new.coll = server[i].coll /\ next.answer = calls[c].answer
          /\ new.files = {f \in server[i].files : f.id # calls[c].file.id}
          /\ bytes' = bytes \ {calls[c].file.id} /\ UNCHANGED taken
       \/ /\ calls[c].at = "slot.sent" /\ Advances(c, next, "data.sent")
          /\ calls[c].file \in File
          /\ new.coll = server[i].coll /\ next.answer = new
          /\ new.files = server[i].files \cup {calls[c].file}
          /\ taken' = taken \cup {calls[c].file.id} /\ UNCHANGED bytes
    /\ server' = [server EXCEPT ![i] = new]
    /\ next.item = i /\ next.listing = calls[c].listing
    /\ UNCHANGED <<open, vault, cache, snaps, lost, begun, others>>

Deletes(c, i, next) ==
    /\ Addressed(c, i) /\ calls[c].at = "delete.sent"
    /\ Advances(c, next, "delete.splice")
    /\ next.item = i /\ next.answer = calls[c].answer
    /\ next.listing = calls[c].listing
    /\ server' = [server EXCEPT ![i] = Gone]
    /\ bytes' = bytes \ {f.id : f \in server[i].files}
    /\ UNCHANGED <<open, vault, cache, snaps, taken, lost, begun, others>>

Stores(c, i, next) ==
    /\ Addressed(c, i) /\ calls[c].at = "data.sent" /\ calls[c].file \in File
    /\ \E f \in server[i].files : f.id = calls[c].file.id
    /\ Advances(c, next, "upload.splice")
    /\ next.item = i /\ next.answer = calls[c].answer
    /\ next.listing = calls[c].listing
    /\ bytes' = bytes \cup {calls[c].file.id}
    /\ UNCHANGED <<server, open, vault, cache, snaps, taken, lost, begun, others>>

Lists(c, next) ==
    /\ calls[c].at = "sync.sent" /\ Advances(c, next, "sync.apply")
    /\ next.item = calls[c].item /\ next.answer = calls[c].answer
    /\ next.listing = Listing
    /\ UNCHANGED <<server, bytes, open, vault, cache, snaps, taken, lost, begun, others>>

ServesOne(c) ==
    \/ \E i \in ItemIds : \E next :
         \/ \E new : Creates(c, i, new, next) \/ Rewrites(c, i, new, next)
                       \/ Alters(c, i, new, next)
         \/ Deletes(c, i, next) \/ Stores(c, i, next)
    \/ \E next : Lists(c, next)

LEMMA CreatesOne ==
    ASSUME TypeOK, NEW c \in Calls, NEW i \in ItemIds, ServerCreates(c, i)
    PROVE  ServesOne(c)
<1> DEFINE b == calls[c].body
           item == [kind |-> b.kind, org |-> b.org,
                    coll |-> IF b.org = None THEN None ELSE b.coll,
                    wrap |-> b.wrap, fields |-> b.fields, past |-> b.past,
                    files |-> {}, reprompt |-> b.reprompt, whole |-> TRUE,
                    trashed |-> FALSE]
           next == [calls[c] EXCEPT !.at = "create.splice", !.item = i,
                                    !.answer = item]
<1>1. b \in Body
    BY CallType DEF ServerCreates, Holds
<1>2. /\ item \in Item /\ item.org = b.org /\ item.wrap = b.wrap
      /\ item.fields = b.fields /\ item.files = {} /\ item.kind = b.kind
      /\ item.coll = IF b.org = None THEN None ELSE b.coll
    BY <1>1, CreatedItem
<1>3. /\ calls' = [calls EXCEPT ![c] = next] /\ server' = [server EXCEPT ![i] = item]
      /\ UNCHANGED <<bytes, open, vault, cache, snaps, taken, lost, begun, others>>
      /\ calls[c].at = "create.sent" /\ server[i] = None
    BY DEF ServerCreates, Serve, Goto, disk, count
<1> HIDE DEF item
<1>4. calls[c] \in Call /\ "create.splice" \in Steps
    BY CallType DEF Steps, Answered
<1>5. next = [calls[c] EXCEPT !.at = "create.splice", !.item = i, !.answer = item]
    OBVIOUS
<1> HIDE DEF next
<1>6. /\ next \in Call /\ next.at = "create.splice" /\ next.answer = item
      /\ next.item = i /\ next.op = calls[c].op /\ next.read = calls[c].read
      /\ next.body = calls[c].body /\ next.file = calls[c].file
      /\ next.listing = calls[c].listing
    BY <1>2, <1>4, <1>5 DEF Call
<1>7. Creates(c, i, item, next)
    BY <1>1, <1>2, <1>3, <1>6 DEF Creates, Advances
<1> QED BY <1>7 DEF ServesOne

LEMMA UpdatesOne ==
    ASSUME TypeOK, NEW c \in Calls, ServerUpdates(c) PROVE ServesOne(c)
<1> DEFINE i == calls[c].item
           body == calls[c].body
           replaced(wrap) == Replaces(server[i], body, wrap)
           to(wrap) == [calls[c] EXCEPT !.at = "update.splice",
                                        !.answer = replaced(wrap)]
<1>1. /\ calls[c].at \in {"update.sent", "login.sent"} /\ Served(i)
      /\ server[i].org \in {None, body.org}
      /\ UNCHANGED <<bytes, taken>>
    BY DEF ServerUpdates, Accepts
<1>2. PICK wrap \in KeptWraps(server[i], body) :
        /\ server' = [server EXCEPT ![i] = replaced(wrap)]
        /\ lost' = Losing(i, body, wrap)
        /\ Serve(c, to(wrap))
    BY DEF ServerUpdates
<1> DEFINE item == replaced(wrap)
           next == to(wrap)
<1>3. /\ server' = [server EXCEPT ![i] = item]
      /\ calls' = [calls EXCEPT ![c] = next]
      /\ UNCHANGED <<bytes, open, vault, cache, snaps, taken, begun, others>>
    BY <1>1, <1>2 DEF Serve, Goto, disk, count
<1>4. i # None /\ body \in Body
    BY <1>1, CallType DEF Holds
<1>5. i \in ItemIds /\ server[i] \in Item /\ item \in Item
    BY <1>1, <1>2, <1>4, ServedCall, ReplacedItem
<1>6. /\ item.org = body.org /\ item.wrap = wrap
      /\ item.fields = body.fields /\ item.files = server[i].files
      /\ item.coll = server[i].coll /\ item.kind = body.kind
      /\ item.past = body.past /\ item.reprompt = body.reprompt
    BY DEF Replaces
<1>7. calls[c] \in Call /\ "update.splice" \in Steps
      /\ next = [calls[c] EXCEPT !.at = "update.splice", !.answer = item]
    BY CallType DEF Steps, Answered
<1> HIDE DEF replaced, to, item, next
<1>8. /\ next \in Call /\ next.at = "update.splice" /\ next.answer = item
      /\ next.item = i /\ next.op = calls[c].op /\ next.read = calls[c].read
      /\ next.body = body /\ next.file = calls[c].file
      /\ next.listing = calls[c].listing
    BY <1>5, <1>7 DEF Call
<1>9. Rewrites(c, i, item, next)
    BY <1>1, <1>2, <1>3, <1>4, <1>5, <1>6, <1>8
       DEF Rewrites, Addressed, Advances
<1> QED BY <1>5, <1>9 DEF ServesOne

LEMMA SharesOne ==
    ASSUME TypeOK, NEW c \in Calls, ServerShares(c) PROVE ServesOne(c)
<1> DEFINE i == calls[c].item
           body == calls[c].body
           replaced(wrap) == Replaces(server[i], body, wrap)
           shared(wrap) == [replaced(wrap) EXCEPT !.coll = body.coll]
           next == [calls[c] EXCEPT !.at = "share.mark"]
<1>1. /\ calls[c].at = "share.sent" /\ Served(i)
      /\ server[i].org \in {None, body.org}
      /\ calls' = [calls EXCEPT ![c] = next]
      /\ UNCHANGED <<bytes, open, vault, cache, snaps, taken, begun, others>>
    BY DEF ServerShares, Accepts, Serve, Goto, disk, count
<1>2. PICK wrap \in KeptWraps(server[i], body) :
        /\ server' = [server EXCEPT ![i] = shared(wrap)]
        /\ lost' = Losing(i, body, wrap)
    BY DEF ServerShares
<1> DEFINE item == shared(wrap)
<1>3. i # None /\ body \in Body
    BY <1>1, CallType DEF Holds
<1>4. i \in ItemIds /\ server[i] \in Item /\ replaced(wrap) \in Item
    BY <1>1, <1>2, <1>3, ServedCall, ReplacedItem
<1>5. /\ item \in Item /\ server' = [server EXCEPT ![i] = item]
      /\ item.org = body.org /\ item.wrap = wrap
      /\ item.fields = body.fields /\ item.files = server[i].files
      /\ item.coll = body.coll /\ item.kind = body.kind
      /\ item.past = body.past /\ item.reprompt = body.reprompt
    BY <1>2, <1>3, <1>4 DEF Item, Body, Replaces
<1>6. /\ next \in Call /\ next.at = "share.mark" /\ next.item = i
      /\ next.body = body /\ next.op = calls[c].op /\ next.read = calls[c].read
      /\ next.file = calls[c].file /\ next.answer = calls[c].answer
      /\ next.listing = calls[c].listing
    BY CallType, Moved DEF Steps, Answered
<1> HIDE DEF next, item, shared, replaced
<1>7. Rewrites(c, i, item, next)
    BY <1>1, <1>2, <1>3, <1>4, <1>5, <1>6 DEF Rewrites, Addressed, Advances
<1> QED BY <1>4, <1>7 DEF ServesOne

LEMMA ChangesOne ==
    ASSUME TypeOK, NEW c \in Calls,
           ServerMoves(c) \/ ServerFlags(c) \/ ServerDeletes(c) \/ ServerUnfiles(c)
    PROVE  ServesOne(c)
<1> DEFINE i == calls[c].item
           next(to) == [calls[c] EXCEPT !.at = to]
<1>1. Served(i) /\ i # None
    BY CallType DEF ServerMoves, ServerFlags, ServerDeletes, ServerUnfiles, Holds
<1>2. Addressed(c, i)
    BY <1>1, ServedCall DEF Addressed
<1>3. ASSUME NEW to \in Answered, calls' = [calls EXCEPT ![c] = next(to)]
      PROVE  /\ Advances(c, next(to), to) /\ next(to).item = i
             /\ next(to).answer = calls[c].answer
             /\ next(to).listing = calls[c].listing
    BY <1>3, CallType, Moved DEF Steps, Advances
<1> HIDE DEF next
<1>4. UNCHANGED <<open, vault, cache, snaps, lost, begun, others>>
    BY DEF ServerMoves, ServerFlags, ServerDeletes, ServerUnfiles, Serve, disk, count
<1>5. CASE ServerMoves(c)
  <2> DEFINE item == [server[i] EXCEPT !.coll = calls[c].read.coll]
  <2>1. calls[c].read \in Item
      BY <1>5, CallType DEF ServerMoves, Holds
  <2>2. /\ item \in Item /\ item.org = server[i].org /\ item.wrap = server[i].wrap
        /\ item.fields = server[i].fields /\ item.files = server[i].files
        /\ item.coll = calls[c].read.coll /\ item.kind = server[i].kind
      BY <1>2, <2>1 DEF Item, Addressed
  <2>3. /\ server' = [server EXCEPT ![i] = item]
        /\ calls' = [calls EXCEPT ![c] = next("move.splice")]
        /\ UNCHANGED <<bytes, taken>> /\ calls[c].at = "move.sent"
      BY <1>5 DEF ServerMoves, Serve, Goto, next
  <2> HIDE DEF item
  <2>4. Alters(c, i, item, next("move.splice"))
      BY <1>2, <1>3, <1>4, <2>2, <2>3 DEF Alters, Answered
  <2> QED BY <1>2, <2>4 DEF ServesOne, Addressed
<1>6. CASE ServerFlags(c)
  <2> DEFINE item == [server[i] EXCEPT !.trashed = calls[c].flag]
  <2>1. /\ item \in Item /\ item.org = server[i].org /\ item.wrap = server[i].wrap
        /\ item.fields = server[i].fields /\ item.files = server[i].files
        /\ item.coll = server[i].coll /\ item.kind = server[i].kind
      BY <1>2, CallType DEF Item, Addressed
  <2>2. /\ server' = [server EXCEPT ![i] = item]
        /\ calls' = [calls EXCEPT ![c] = next("flag.splice")]
        /\ UNCHANGED <<bytes, taken>> /\ calls[c].at = "flag.sent"
      BY <1>6 DEF ServerFlags, Serve, Goto, next
  <2> HIDE DEF item
  <2>3. Alters(c, i, item, next("flag.splice"))
      BY <1>2, <1>3, <1>4, <2>1, <2>2 DEF Alters, Answered
  <2> QED BY <1>2, <2>3 DEF ServesOne, Addressed
<1>7. CASE ServerDeletes(c)
  <2>1. /\ server' = [server EXCEPT ![i] = Gone]
        /\ calls' = [calls EXCEPT ![c] = next("delete.splice")]
        /\ UNCHANGED taken /\ calls[c].at = "delete.sent"
        /\ bytes' = bytes \ {f.id : f \in server[i].files}
      BY <1>7 DEF ServerDeletes, Serve, Goto, next
  <2>2. Deletes(c, i, next("delete.splice"))
      BY <1>2, <1>3, <1>4, <2>1 DEF Deletes, Answered
  <2> QED BY <1>2, <2>2 DEF ServesOne, Addressed
<1>8. CASE ServerUnfiles(c)
  <2> DEFINE item == Without(server[i], calls[c].file)
  <2>1. /\ item \in Item /\ item.org = server[i].org /\ item.wrap = server[i].wrap
        /\ item.fields = server[i].fields /\ item.coll = server[i].coll
        /\ item.files = {f \in server[i].files : f.id # calls[c].file.id}
        /\ item.kind = server[i].kind
      BY <1>2 DEF Without, Item, Addressed
  <2>2. /\ server' = [server EXCEPT ![i] = item]
        /\ calls' = [calls EXCEPT ![c] = next("unfile.splice")]
        /\ UNCHANGED taken /\ calls[c].at = "unfile.sent"
        /\ bytes' = bytes \ {calls[c].file.id}
    <3>1. [server EXCEPT ![i] = Without(@, calls[c].file)]
            = [server EXCEPT ![i] = item]
        OBVIOUS
    <3> HIDE DEF item
    <3> QED BY <1>8, <3>1 DEF ServerUnfiles, Serve, Goto, next
  <2> HIDE DEF item
  <2>3. Alters(c, i, item, next("unfile.splice"))
      BY <1>2, <1>3, <1>4, <2>1, <2>2 DEF Alters, Answered
  <2> QED BY <1>2, <2>3 DEF ServesOne, Addressed
<1> QED BY <1>5, <1>6, <1>7, <1>8

LEMMA SlotsOne ==
    ASSUME TypeOK, NEW c \in Calls, ServerMakesSlot(c) PROVE ServesOne(c)
<1> DEFINE i == calls[c].item
           item == [server[i] EXCEPT !.files = @ \cup {calls[c].file}]
           next == [calls[c] EXCEPT !.at = "data.sent", !.answer = item]
<1>1. /\ calls[c].at = "slot.sent" /\ Served(i)
      /\ server' = [server EXCEPT ![i] = item]
      /\ taken' = taken \cup {calls[c].file.id}
      /\ calls' = [calls EXCEPT ![c] = next]
      /\ UNCHANGED <<bytes, open, vault, cache, snaps, lost, begun, others>>
    BY DEF ServerMakesSlot, Serve, Goto, disk, count
<1>2. i # None /\ calls[c].file \in File
    BY <1>1, CallType, Sentinels DEF Holds
<1>3. Addressed(c, i)
    BY <1>1, <1>2, ServedCall DEF Addressed
<1>4. /\ item \in Item /\ item.org = server[i].org /\ item.wrap = server[i].wrap
      /\ item.fields = server[i].fields /\ item.coll = server[i].coll
      /\ item.files = server[i].files \cup {calls[c].file}
      /\ item.kind = server[i].kind
    BY <1>2, <1>3 DEF Item, Addressed
<1>5. calls[c] \in Call /\ "data.sent" \in Steps
      /\ next = [calls[c] EXCEPT !.at = "data.sent", !.answer = item]
    BY CallType DEF Steps, Sent
<1> HIDE DEF item, next
<1>6. /\ next \in Call /\ next.at = "data.sent" /\ next.answer = item
      /\ next.item = i /\ next.op = calls[c].op /\ next.read = calls[c].read
      /\ next.body = calls[c].body /\ next.file = calls[c].file
      /\ next.listing = calls[c].listing
    BY <1>4, <1>5 DEF Call
<1>7. Alters(c, i, item, next)
    BY <1>1, <1>2, <1>3, <1>4, <1>6 DEF Alters, Advances
<1> QED BY <1>3, <1>7 DEF ServesOne, Addressed

LEMMA StoresOne ==
    ASSUME TypeOK, NEW c \in Calls, ServerStores(c) PROVE ServesOne(c)
<1> DEFINE i == calls[c].item
           next == [calls[c] EXCEPT !.at = "upload.splice"]
<1>1. /\ calls[c].at = "data.sent" /\ Served(i)
      /\ \E f \in server[i].files : f.id = calls[c].file.id
      /\ bytes' = bytes \cup {calls[c].file.id}
      /\ calls' = [calls EXCEPT ![c] = next]
      /\ UNCHANGED <<server, open, vault, cache, snaps, taken, lost, begun, others>>
    BY DEF ServerStores, Serve, Goto, disk, count
<1>2. i # None /\ calls[c].file \in File
    BY <1>1, CallType, Sentinels DEF Holds
<1>3. Addressed(c, i)
    BY <1>1, <1>2, ServedCall DEF Addressed
<1>4. /\ Advances(c, next, "upload.splice") /\ next.item = i
      /\ next.answer = calls[c].answer /\ next.listing = calls[c].listing
    BY <1>1, CallType, Moved DEF Steps, Answered, Advances
<1> HIDE DEF next
<1>5. Stores(c, i, next)
    BY <1>1, <1>2, <1>3, <1>4 DEF Stores
<1> QED BY <1>3, <1>5 DEF ServesOne, Addressed

LEMMA ListsOne ==
    ASSUME TypeOK, NEW c \in Calls, ServerLists(c) PROVE ServesOne(c)
<1> DEFINE next == [calls[c] EXCEPT !.at = "sync.apply", !.listing = Listing]
<1>1. /\ calls[c].at = "sync.sent" /\ calls' = [calls EXCEPT ![c] = next]
      /\ UNCHANGED <<server, bytes, open, vault, cache, snaps, taken, lost, begun, others>>
    BY DEF ServerLists, Serve, Goto, disk, count
<1>2. /\ calls[c] \in Call /\ "sync.apply" \in Steps
      /\ next = [calls[c] EXCEPT !.at = "sync.apply", !.listing = Listing]
    BY CallType DEF Steps, Answered
<1>3. Listing \in Vaults
    BY ListingType
<1> HIDE DEF next
<1>4. /\ next \in Call /\ next.at = "sync.apply" /\ next.listing = Listing
      /\ next.op = calls[c].op /\ next.item = calls[c].item
      /\ next.read = calls[c].read /\ next.body = calls[c].body
      /\ next.file = calls[c].file /\ next.answer = calls[c].answer
    BY <1>2, <1>3 DEF Call
<1>5. Lists(c, next)
    BY <1>1, <1>4 DEF Lists, Advances
<1> QED BY <1>5 DEF ServesOne

LEMMA ServerStepIs ==
    ASSUME TypeOK, NEW c \in Calls, ServerStep(c) PROVE ServesOne(c)
BY CreatesOne, UpdatesOne, SharesOne, ChangesOne, SlotsOne, StoresOne, ListsOne
   DEF ServerStep

\* The entry an answer leaves in memory.
Adopts(c, new) ==
    /\ calls[c].at \in {"update.splice", "upload.splice"}
    /\ new = calls[c].answer
Shares(c, item, new) ==
    /\ calls[c].at = "share.splice"
    /\ new.org = calls[c].body.org /\ new.coll = calls[c].body.coll
    /\ new.wrap = item.wrap /\ new.fields = item.fields /\ new.files = item.files
    /\ new.kind = item.kind
Touches(c, item, new) ==
    /\ new.org = item.org /\ new.wrap = item.wrap /\ new.fields = item.fields
    /\ new.kind = item.kind /\ new.files \subseteq item.files
    /\ \/ new.coll = item.coll
       \/ calls[c].at = "move.splice" /\ new.coll = calls[c].read.coll
Splices(c, i, new) ==
    /\ i = calls[c].item /\ calls[c].at \in Answered \cup {"share.splice"}
    /\ Splice(c, i, new)
    /\ Known(i) =>
         /\ vault \in Vaults /\ vault[i] \in Item
         /\ new # None =>
              /\ new \in Item
              /\ Adopts(c, new) \/ Shares(c, vault[i], new) \/ Touches(c, vault[i], new)

LEMMA SpliceStepIs ==
    ASSUME TypeOK, NEW c \in Calls, SpliceStep(c)
    PROVE  \E i \in ItemIds : \E new : Splices(c, i, new)
<1> DEFINE i == calls[c].item
<1>1. i \in ItemIds
    BY CallType DEF SpliceStep, UpdateSplices, ShareSplices, MoveSplices,
         FlagSplices, DeleteSplices, UploadSplices, UnfileSplices, Holds
<1>2. Known(i) => vault \in Vaults /\ vault[i] \in Item
    BY <1>1, KnownItem
<1>3. calls[c].at \in Answered \cup {"share.splice"}
    BY DEF SpliceStep, UpdateSplices, ShareSplices, MoveSplices,
         FlagSplices, DeleteSplices, UploadSplices, UnfileSplices, Answered
<1>4. CASE UpdateSplices(c) \/ UploadSplices(c)
  <2>1. /\ Splice(c, i, calls[c].answer) /\ calls[c].answer \in Item
        /\ Adopts(c, calls[c].answer)
      BY <1>4, CallType DEF UpdateSplices, UploadSplices, Holds, Adopts
  <2> QED BY <1>1, <1>2, <1>3, <2>1 DEF Splices
<1>5. CASE ShareSplices(c)
  <2> DEFINE new == IF Known(i)
                    THEN [vault[i] EXCEPT !.org = calls[c].body.org,
                                          !.coll = calls[c].body.coll]
                    ELSE None
  <2>1. Splice(c, i, new) /\ calls[c].body \in Body
      BY <1>5, CallType DEF ShareSplices, Holds
  <2>2. Known(i) => new \in Item /\ Shares(c, vault[i], new)
      BY <1>2, <1>5, <2>1 DEF Body, Item, Shares, ShareSplices
  <2> HIDE DEF new
  <2> QED BY <1>1, <1>2, <1>3, <2>1, <2>2 DEF Splices
<1>6. CASE MoveSplices(c)
  <2> DEFINE new == IF Known(i)
                    THEN [vault[i] EXCEPT !.coll = calls[c].read.coll] ELSE None
  <2>1. Splice(c, i, new) /\ calls[c].read \in Item
      BY <1>6, CallType DEF MoveSplices, Holds
  <2>2. Known(i) => new \in Item /\ Touches(c, vault[i], new)
      BY <1>2, <1>6, <2>1 DEF Item, Touches, MoveSplices
  <2> HIDE DEF new
  <2> QED BY <1>1, <1>2, <1>3, <2>1, <2>2 DEF Splices
<1>7. CASE FlagSplices(c)
  <2> DEFINE new == IF Known(i)
                    THEN [vault[i] EXCEPT !.trashed = calls[c].flag] ELSE None
  <2>1. Splice(c, i, new) /\ calls[c].flag \in BOOLEAN
      BY <1>7, CallType DEF FlagSplices
  <2>2. Known(i) => new \in Item /\ Touches(c, vault[i], new)
      BY <1>2, <2>1 DEF Item, Touches
  <2> HIDE DEF new
  <2> QED BY <1>1, <1>2, <1>3, <2>1, <2>2 DEF Splices
<1>8. CASE DeleteSplices(c)
    BY <1>1, <1>2, <1>3, <1>8 DEF DeleteSplices, Splices
<1>9. CASE UnfileSplices(c)
  <2> DEFINE new == IF Known(i) THEN Without(vault[i], calls[c].file) ELSE None
  <2>1. Splice(c, i, new)
      BY <1>9 DEF UnfileSplices
  <2>2. Known(i) => new \in Item /\ Touches(c, vault[i], new)
      BY <1>2 DEF Item, Without, Touches
  <2> HIDE DEF new
  <2> QED BY <1>1, <1>2, <1>3, <2>1, <2>2 DEF Splices
<1> QED BY <1>4, <1>5, <1>6, <1>7, <1>8, <1>9 DEF SpliceStep

-----------------------------------------------------------------------------
(* Keys: every item opens, wherever it is.                                 *)

MemoryOpens(item) == ItemOpens(item) \/ SharedSince(item)

\* l has the items whose key the server kept of old: what such an item has is
\* under the key of an owner the session has a key of.
Orphaned(l, i, item) == i \in l /\ item.org \in Held \cup {None}
Fits(l, i, item) == ItemOpens(item) \/ Orphaned(l, i, item)
MemoryFits(l, i, item) == MemoryOpens(item) \/ Orphaned(l, i, item)
VaultOpens(l, items) ==
    \A i \in ItemIds : items[i] # None => Fits(l, i, items[i])
Sharing == {"share.save", "share.sent", "share.mark", "share.splice"}

CallOpens(l, call) ==
    /\ call.body # None => ItemOpens(call.body)
    /\ call.answer # None => Fits(l, call.item, call.answer)
    /\ call.listing # None => VaultOpens(l, call.listing)
    /\ call.at \in Sharing => call.body.org \in Held
    /\ call.at \in {"update.sent", "login.sent"} =>
         call.body.org \in Held \cup {None}

ServerFits == \A i \in ItemIds : Served(i) => Fits(lost, i, server[i])
MemoryFit ==
    vault # None => \A i \in ItemIds :
        vault[i] # None => MemoryFits(lost, i, vault[i])
CallsOpen == \A c \in Calls : CallOpens(lost, calls[c])
CacheOpens == cache # None => VaultOpens(lost, cache)

KeysFit ==
    /\ ServerFits
    /\ MemoryFit
    /\ CacheOpens
    /\ CallsOpen

LEMMA InMemory ==
    ASSUME KeysFit, NEW i \in ItemIds, Known(i)
    PROVE  MemoryFits(lost, i, vault[i])
BY DEF KeysFit, MemoryFit, Known

\* What fits still fits when more items are lost.
LEMMA FitsStill ==
    ASSUME NEW l, NEW more, l \subseteq more
    PROVE  /\ \A i, item : Fits(l, i, item) => Fits(more, i, item)
           /\ \A i, item : MemoryFits(l, i, item) => MemoryFits(more, i, item)
           /\ \A items : VaultOpens(l, items) => VaultOpens(more, items)
           /\ \A call : CallOpens(l, call) => CallOpens(more, call)
<1>1. /\ \A i, item : Fits(l, i, item) => Fits(more, i, item)
      /\ \A i, item : MemoryFits(l, i, item) => MemoryFits(more, i, item)
    BY DEF Fits, MemoryFits, Orphaned
<1>2. \A items : VaultOpens(l, items) => VaultOpens(more, items)
    BY <1>1 DEF VaultOpens
<1>3. \A call : CallOpens(l, call) => CallOpens(more, call)
    BY <1>1, <1>2 DEF CallOpens
<1> QED BY <1>1, <1>2, <1>3

LEMMA CallsOpenOn ==
    ASSUME TypeOK, KeysFit, lost \subseteq lost',
           NEW c \in Calls, NEW next, CallOpens(lost', next),
           calls' = [calls EXCEPT ![c] = next]
    PROVE  CallsOpen'
<1>1. \A d \in Calls : calls'[d] = IF d = c THEN next ELSE calls[d]
    BY DEF TypeOK
<1>2. \A d \in Calls : CallOpens(lost', calls[d])
    BY FitsStill DEF KeysFit, CallsOpen
<1> QED BY <1>1, <1>2 DEF CallsOpen

\* Memory and the cache stay as they are.
LEMMA MemoryStill ==
    ASSUME KeysFit, lost \subseteq lost', UNCHANGED <<vault, cache>>
    PROVE  MemoryFit' /\ CacheOpens'
BY FitsStill DEF KeysFit, MemoryFit, CacheOpens

LEMMA IdleOpens == CallOpens(lost, Idle) /\ CallOpens(lost', Idle)
BY DEF CallOpens, Idle, Sharing

\* An item alike in owner, wrapper and fields is as good in memory.
LEMMA SameMemory ==
    ASSUME NEW item \in Item, NEW other \in Item, MemoryOpens(item),
           other.org = item.org, other.wrap = item.wrap,
           other.fields = item.fields
    PROVE  MemoryOpens(other)
<1>1. item.wrap \in Wrap \cup {None}
    BY DEF Item
<1>2. CASE ItemOpens(item)
    BY <1>1, <1>2, SameOpens DEF MemoryOpens
<1>3. CASE SharedSince(item)
  <2>1. PICK o \in Orgs \cup {None} : ItemOpens([item EXCEPT !.org = o])
      BY <1>3 DEF SharedSince
  <2> DEFINE before == [item EXCEPT !.org = o]
             after == [other EXCEPT !.org = o]
  <2>2. /\ before.org = o /\ before.wrap = item.wrap /\ before.fields = item.fields
        /\ after.org = o /\ after.wrap = item.wrap /\ after.fields = item.fields
      BY DEF Item
  <2> HIDE DEF before, after
  <2>3. ItemOpens(after)
      BY <1>1, <2>1, <2>2, SameOpens DEF before
  <2> QED BY <1>3, <2>3 DEF SharedSince, MemoryOpens, after
<1> QED BY <1>2, <1>3 DEF MemoryOpens

\* A share moves the owner of an entry, which opened under one owner.
LEMMA SharedMemory ==
    ASSUME NEW item \in Item, MemoryOpens(item), NEW other \in Item,
           other.org \in Held, other.wrap = item.wrap, other.fields = item.fields
    PROVE  MemoryOpens(other)
<1>1. item.wrap \in Wrap \cup {None} /\ item.org \in Orgs \cup {None}
    BY DEF Item
<1>2. PICK o \in Orgs \cup {None} : ItemOpens([item EXCEPT !.org = o])
  <2>1. CASE ItemOpens(item)
    <3> DEFINE same == [item EXCEPT !.org = item.org]
    <3>1. same.org = item.org /\ same.wrap = item.wrap /\ same.fields = item.fields
        BY DEF Item
    <3> HIDE DEF same
    <3>2. ItemOpens(same)
        BY <1>1, <2>1, <3>1, SameOpens
    <3> QED BY <1>1, <3>2 DEF same
  <2>2. CASE SharedSince(item)
      BY <2>2 DEF SharedSince
  <2> QED BY <2>1, <2>2 DEF MemoryOpens
<1> DEFINE before == [item EXCEPT !.org = o]
           after == [other EXCEPT !.org = o]
<1>3. /\ before.org = o /\ before.wrap = item.wrap /\ before.fields = item.fields
      /\ after.org = o /\ after.wrap = item.wrap /\ after.fields = item.fields
    BY DEF Item
<1> HIDE DEF before, after
<1>4. ItemOpens(after)
    BY <1>1, <1>2, <1>3, SameOpens DEF before
<1> QED BY <1>4 DEF SharedSince, MemoryOpens, after

\* An item of an organisation whose key the session has not is not copied: its
\* name does not open under the key the copy degrades to.
LEMMA CopyOpens ==
    ASSUME NEW item \in Item, CopyOf(item) # None,
           MemoryOpens(item) \/ item.org \in Held \cup {None}
    PROVE  ItemOpens(CopyOf(item))
<1> DEFINE body == CopyOf(item)
           name == item.fields["name"]
<1>1. /\ body \in Body /\ body.wrap = None /\ body.org = item.org
      /\ Decrypt(name, CipherKey(item, Session)) # None
      /\ \A p \in Parts : Opens(body.fields[p], Owned(item.org, Held))
    BY CopyOfType
<1>2. item.org \in Orgs \cup {None} /\ item.wrap \in Wrap \cup {None}
    BY DEF Item
<1>3. item.org \in Held \cup {None}
  <2> SUFFICES ASSUME item.org \in Orgs \ Held PROVE FALSE
      BY <1>2
  <2>1. OpensUnder(item.org, item.wrap, item.fields)
      BY <1>2, OpensIs, NoneAssumption DEF MemoryOpens, SharedSince, Keys
  <2>2. Owned(item.org, Orgs) = item.org /\ Owned(item.org, Held) = UserKey
      BY DEF Owned
  <2>3. CipherKey(item, Session) = UserKey
    <3>1. item.wrap # None => item.wrap.under # UserKey
        BY <2>1, <2>2 DEF OpensUnder
    <3> QED BY <2>2, <3>1, RingKeys DEF CipherKey, ItemKey, DecryptCipherKey
  <2>4. name # None /\ name.under = UserKey
      BY <1>1, <2>3 DEF Decrypt
  <2>5. name.under = IF item.wrap = None THEN item.org ELSE item.wrap.key
      BY <2>1, <2>2, <2>4 DEF OpensUnder, Opens, Parts
  <2>6. item.wrap # None => item.wrap.key \in OwnKeys
      BY <1>2 DEF Wrap
  <2> QED BY <2>4, <2>5, <2>6
<1>4. Owned(item.org, Held) = Owned(item.org, Orgs)
    BY <1>3 DEF Owned, Keys
<1> HIDE DEF body
<1>5. OpensUnder(body.org, body.wrap, body.fields)
    BY <1>1, <1>4 DEF OpensUnder
<1> QED BY <1>1, <1>5, OpensIs DEF body

LEMMA StartKeys ==
    ASSUME TypeOK, KeysFit, NEW c \in Calls, StartStep(c) PROVE KeysFit'
<1>1. PICK next : Begins(c, next) /\ StartFits(next)
    BY StartStarted DEF Started
<1>2. next.body # None => ItemOpens(next.body)
  <2>1. ASSUME NEW i \in ItemIds, Known(i), next.body = CopyOf(vault[i]),
               next.body # None
        PROVE  ItemOpens(next.body)
    <3>1. vault[i] \in Item /\ MemoryFits(lost, i, vault[i])
        BY <2>1, KnownItem, InMemory
    <3> QED BY <2>1, <3>1, CopyOpens DEF MemoryFits, Orphaned
  <2> QED BY <1>1, <2>1 DEF StartFits, BodyOpens
<1>3. /\ next.at \in Sharing => next.body.org \in Held
      /\ next.at \in {"update.sent", "login.sent"} =>
           next.body.org \in Held \cup {None}
    BY <1>1 DEF StartFits, BodyFits, Sharing, Sent
<1>4. CallOpens(lost, next)
    BY <1>1, <1>2, <1>3 DEF Begins, CallOpens
<1>5. UNCHANGED <<server, vault, cache, lost>>
    BY <1>1 DEF Begins
<1>6. CallsOpen'
    BY <1>1, <1>4, <1>5, CallsOpenOn DEF Begins
<1> QED BY <1>5, <1>6, MemoryStill DEF KeysFit, ServerFits, Served

LEMMA ServerOpensOn ==
    ASSUME TypeOK, KeysFit, lost \subseteq lost', NEW i \in ItemIds, NEW new,
           new \notin {None, Gone} => Fits(lost', i, new),
           server' = [server EXCEPT ![i] = new]
    PROVE  ServerFits'
<1>1. \A j \in ItemIds : server'[j] = IF j = i THEN new ELSE server[j]
    BY DEF TypeOK
<1>2. \A j \in ItemIds : Served(j) => Fits(lost', j, server[j])
    BY FitsStill DEF KeysFit, ServerFits
<1> QED BY <1>1, <1>2 DEF ServerFits, Served

LEMMA ListingOpens == ASSUME TypeOK, KeysFit PROVE VaultOpens(lost, Listing)
BY DEF VaultOpens, Listing, KeysFit, ServerFits

\* A body opens; what comes of it on the server does, unless the server keeps
\* the key of old.
LEMMA RewritesFit ==
    ASSUME TypeOK, KeysFit, NEW c \in Calls, NEW i \in ItemIds, NEW new, NEW next,
           Rewrites(c, i, new, next)
    PROVE  lost \subseteq lost' /\ Fits(lost', i, new)
<1>1. CallOpens(lost, calls[c]) /\ calls[c].body \in Body
    BY DEF KeysFit, CallsOpen, Rewrites
<1>2. ItemOpens(calls[c].body)
    BY <1>1, NoneAssumption DEF CallOpens
<1>3. CASE new.wrap = calls[c].body.wrap
  <2>1. ItemOpens(new)
      BY <1>1, <1>2, <1>3, SameOpens DEF Rewrites, Body
  <2> QED BY <1>3, <2>1 DEF Rewrites, Losing, Fits
<1>4. CASE new.wrap # calls[c].body.wrap
  <2>1. lost' = lost \cup {i}
      BY <1>4 DEF Rewrites, Losing
  <2>2. new.org \in Held \cup {None}
      BY <1>1 DEF Rewrites, CallOpens, Sharing
  <2> QED BY <2>1, <2>2 DEF Fits, Orphaned
<1> QED BY <1>3, <1>4

LEMMA ServerKeys ==
    ASSUME TypeOK, KeysFit, NEW c \in Calls, ServerStep(c) PROVE KeysFit'
<1>1. CallOpens(lost, calls[c]) /\ calls[c] \in Call
    BY CallType DEF KeysFit, CallsOpen
<1> DEFINE Kept == /\ ServerFits' /\ CallsOpen' /\ lost \subseteq lost'
                   /\ UNCHANGED <<vault, cache>>
<1>2. Kept
  <2>1. ASSUME NEW i \in ItemIds, NEW new, NEW next, Creates(c, i, new, next)
        PROVE  Kept
    <3>1. ItemOpens(calls[c].body)
        BY <1>1, <2>1, NoneAssumption DEF Creates, CallOpens
    <3>2. ItemOpens(new)
        BY <2>1, <3>1, SameOpens DEF Creates, Body
    <3>3. lost' = lost /\ CallOpens(lost', next)
        BY <1>1, <2>1, <3>2 DEF Creates, Advances, CallOpens, Sharing, Fits
    <3>4. server' = [server EXCEPT ![i] = new] /\ calls' = [calls EXCEPT ![c] = next]
          /\ UNCHANGED <<vault, cache>>
        BY <2>1 DEF Creates, Advances
    <3> QED BY <3>2, <3>3, <3>4, ServerOpensOn, CallsOpenOn DEF Fits
  <2>2. ASSUME NEW i \in ItemIds, NEW new, NEW next, Rewrites(c, i, new, next)
        PROVE  Kept
    <3>1. lost \subseteq lost' /\ Fits(lost', i, new)
        BY <2>2, RewritesFit
    <3>0. CallOpens(lost', calls[c])
        BY <1>1, <3>1, FitsStill
    <3>2. CallOpens(lost', calls[c]) /\ calls[c].item = i
        BY <2>2, <3>0 DEF Rewrites, Addressed
    <3>3. CallOpens(lost', next)
        BY <2>2, <3>1, <3>2 DEF Rewrites, Advances, CallOpens, Sharing
    <3>4. server' = [server EXCEPT ![i] = new] /\ calls' = [calls EXCEPT ![c] = next]
          /\ UNCHANGED <<vault, cache>>
        BY <2>2 DEF Rewrites, Advances
    <3> QED BY <3>1, <3>3, <3>4, ServerOpensOn, CallsOpenOn
  <2>3. ASSUME NEW i \in ItemIds, NEW new, NEW next, Alters(c, i, new, next)
        PROVE  Kept
    <3>1. Fits(lost, i, server[i]) /\ server[i] \in Item /\ calls[c].item = i
        BY <2>3 DEF Alters, Addressed, KeysFit, ServerFits
    <3>2. Fits(lost, i, new)
      <4>1. new.org = server[i].org /\ new.wrap = server[i].wrap
            /\ new.fields = server[i].fields /\ server[i].wrap \in Wrap \cup {None}
          BY <2>3, <3>1 DEF Alters, Item
      <4> QED BY <3>1, <4>1, SameOpens DEF Fits, Orphaned
    <3>3. lost' = lost /\ CallOpens(lost', next)
        BY <1>1, <2>3, <3>1, <3>2 DEF Alters, Advances, CallOpens, Sharing
    <3>4. server' = [server EXCEPT ![i] = new] /\ calls' = [calls EXCEPT ![c] = next]
          /\ UNCHANGED <<vault, cache>>
        BY <2>3 DEF Alters, Advances
    <3> QED BY <3>2, <3>3, <3>4, ServerOpensOn, CallsOpenOn
  <2>4. ASSUME NEW i \in ItemIds, NEW next, Deletes(c, i, next)
        PROVE  Kept
    <3>1. lost' = lost /\ CallOpens(lost', next)
        BY <1>1, <2>4 DEF Deletes, Advances, Addressed, CallOpens, Sharing
    <3> QED BY <2>4, <3>1, ServerOpensOn, CallsOpenOn DEF Deletes, Advances
  <2>5. ASSUME NEW i \in ItemIds, NEW next, Stores(c, i, next)
        PROVE  Kept
    <3>1. lost' = lost /\ CallOpens(lost', next)
        BY <1>1, <2>5 DEF Stores, Advances, Addressed, CallOpens, Sharing
    <3> QED BY <2>5, <3>1, CallsOpenOn
            DEF Stores, Advances, KeysFit, ServerFits, Served
  <2>6. ASSUME NEW next, Lists(c, next)
        PROVE  Kept
    <3>1. lost' = lost /\ CallOpens(lost', next)
        BY <1>1, <2>6, ListingOpens DEF Lists, Advances, CallOpens, Sharing
    <3> QED BY <2>6, <3>1, CallsOpenOn
            DEF Lists, Advances, KeysFit, ServerFits, Served
  <2> QED BY <2>1, <2>2, <2>3, <2>4, <2>5, <2>6, ServerStepIs DEF ServesOne
<1> QED BY <1>2, MemoryStill DEF KeysFit

\* A return leaves the other calls as they are.
LEMMA ReturnKeys ==
    ASSUME TypeOK, KeysFit, NEW c \in Calls, Return(c), UNCHANGED lost
    PROVE  CallsOpen'
BY IdleOpens, CallsOpenOn DEF Return, Goto

LEMMA SpliceKeys ==
    ASSUME TypeOK, KeysFit, NEW c \in Calls, SpliceStep(c) PROVE KeysFit'
<1>0. PICK i \in ItemIds : \E new : Splices(c, i, new)
    BY SpliceStepIs
<1>1. PICK new : Splices(c, i, new)
    BY <1>0
<1>2. UNCHANGED <<server, cache, lost>> /\ Return(c)
    BY <1>1 DEF Splices, Splice, disk
<1>3. ASSUME Known(i), new # None PROVE MemoryFits(lost, i, new)
  <2>1. /\ vault[i] \in Item /\ new \in Item /\ MemoryFits(lost, i, vault[i])
        /\ Adopts(c, new) \/ Shares(c, vault[i], new) \/ Touches(c, vault[i], new)
      BY <1>1, <1>3, InMemory DEF Splices
  <2>2. CASE Adopts(c, new)
      BY <1>1, <1>3, <2>2 DEF Adopts, Splices, KeysFit, CallsOpen, CallOpens, Fits,
                              MemoryFits, MemoryOpens
  <2>3. CASE Shares(c, vault[i], new)
    <3>1. new.org \in Held
        BY <2>3 DEF Shares, KeysFit, CallsOpen, CallOpens, Sharing
    <3>2. CASE MemoryOpens(vault[i])
        BY <2>1, <2>3, <3>1, <3>2, SharedMemory DEF Shares, MemoryFits
    <3> QED BY <2>1, <3>1, <3>2 DEF MemoryFits, Orphaned
  <2>4. CASE Touches(c, vault[i], new)
    <3>1. new.org = vault[i].org /\ new.wrap = vault[i].wrap
          /\ new.fields = vault[i].fields
        BY <2>4 DEF Touches
    <3> QED BY <2>1, <3>1, SameMemory DEF MemoryFits, Orphaned
  <2> QED BY <2>1, <2>2, <2>3, <2>4
<1>4. MemoryFit'
  <2>1. CASE ~Known(i)
      BY <1>1, <1>2, <2>1 DEF Splices, Splice, KeysFit, MemoryFit
  <2>2. CASE Known(i)
    <3>1. vault' = [vault EXCEPT ![i] = new] /\ vault \in Vaults /\ vault # None
        BY <1>1, <2>2 DEF Splices, Splice, Known
    <3>2. \A j \in ItemIds : vault'[j] = IF j = i THEN new ELSE vault[j]
        BY <3>1 DEF Vaults
    <3>3. \A j \in ItemIds : vault'[j] # None => MemoryFits(lost, j, vault'[j])
        BY <1>3, <2>2, <3>1, <3>2 DEF KeysFit, MemoryFit
    <3> QED BY <1>2, <3>3 DEF MemoryFit
  <2> QED BY <2>1, <2>2
<1> QED BY <1>2, <1>4, ReturnKeys DEF KeysFit, ServerFits, Served, CacheOpens

LEMMA CreateSplicesKeys ==
    ASSUME TypeOK, KeysFit, NEW c \in Calls, CreateSplices(c) PROVE KeysFit'
<1> DEFINE i == calls[c].item
<1>1. UNCHANGED <<server, cache, lost>> /\ Return(c)
    BY DEF CreateSplices, disk
<1>2. i \in ItemIds /\ MemoryFits(lost, i, calls[c].answer)
    BY CallType DEF CreateSplices, Holds, KeysFit, CallsOpen, CallOpens, Fits,
                    MemoryFits, MemoryOpens
<1>3. MemoryFit'
  <2>1. CASE vault = None \/ Known(i)
      BY <1>1, <2>1 DEF CreateSplices, KeysFit, MemoryFit
  <2>2. CASE vault # None /\ ~Known(i)
    <3>1. vault' = [vault EXCEPT ![i] = calls[c].answer] /\ vault \in Vaults
        BY <2>2 DEF CreateSplices, TypeOK
    <3>2. \A j \in ItemIds :
            vault'[j] = IF j = i THEN calls[c].answer ELSE vault[j]
        BY <3>1 DEF Vaults
    <3>3. \A j \in ItemIds : vault'[j] # None => MemoryFits(lost, j, vault'[j])
        BY <1>2, <2>2, <3>2 DEF KeysFit, MemoryFit
    <3> QED BY <1>1, <3>3 DEF MemoryFit
  <2> QED BY <2>1, <2>2
<1> QED BY <1>1, <1>3, ReturnKeys DEF KeysFit, ServerFits, Served, CacheOpens

LEMMA ShareLogsKeys ==
    ASSUME TypeOK, KeysFit, NEW c \in Calls, ShareSaves(c) \/ ShareMarks(c)
    PROVE  KeysFit'
<1>1. PICK to \in {"share.sent", "share.splice"} :
        calls' = [calls EXCEPT ![c] = [calls[c] EXCEPT !.at = to]]
    BY DEF ShareSaves, ShareMarks, Goto
<1> DEFINE next == [calls[c] EXCEPT !.at = to]
<1>2. /\ next.body = calls[c].body /\ next.answer = calls[c].answer
      /\ next.listing = calls[c].listing /\ next.item = calls[c].item
      /\ next.at \in {"share.sent", "share.splice"}
    BY CallType, Moved DEF Steps, Sent
<1>3. calls[c].at \in Sharing /\ CallOpens(lost, calls[c])
    BY DEF ShareSaves, ShareMarks, Sharing, KeysFit, CallsOpen
<1>4. calls' = [calls EXCEPT ![c] = next]
    BY <1>1
<1> HIDE DEF next
<1>5. UNCHANGED <<server, vault, cache, lost>>
    BY DEF ShareSaves, ShareMarks
<1>6. CallsOpen'
    BY <1>2, <1>3, <1>4, <1>5, CallsOpenOn DEF CallOpens
<1> QED BY <1>5, <1>6, MemoryStill DEF KeysFit, ServerFits, Served

LEMMA SyncAppliesKeys ==
    ASSUME TypeOK, KeysFit, NEW c \in Calls, SyncApplies(c) PROVE KeysFit'
<1>1. UNCHANGED <<server, lost>> /\ Return(c) /\ vault' = calls[c].listing
      /\ cache' \in {cache, calls[c].listing}
    BY DEF SyncApplies
<1>2. calls[c].listing # None /\ VaultOpens(lost, calls[c].listing)
    BY CallType DEF SyncApplies, Holds, KeysFit, CallsOpen, CallOpens
<1>3. MemoryFit' /\ CacheOpens'
    BY <1>1, <1>2 DEF MemoryFit, MemoryFits, MemoryOpens, Fits, CacheOpens,
                      VaultOpens, KeysFit
<1> QED BY <1>1, <1>3, ReturnKeys DEF KeysFit, ServerFits, Served

LEMMA RequestFailsKeys ==
    ASSUME TypeOK, KeysFit, NEW c \in Calls, RequestFails(c) PROVE KeysFit'
<1>1. UNCHANGED <<server, vault, cache, lost>> /\ Return(c)
    BY DEF RequestFails, disk
<1> QED BY <1>1, ReturnKeys, MemoryStill DEF KeysFit, ServerFits, Served

LEMMA SessionKeys == ASSUME TypeOK, KeysFit, SessionStep PROVE KeysFit'
<1>1. UNCHANGED <<server, lost>>
    BY DEF SessionStep, LoadsCached, Unlock, Lock, Logout, Crash
<1>2. CallsOpen'
  <2>1. calls' = calls \/ calls' = [c \in Calls |-> Idle]
      BY DEF SessionStep, LoadsCached, Unlock, Lock, Logout, Crash
  <2> QED BY <1>1, <2>1, IdleOpens DEF KeysFit, CallsOpen
<1>3. vault' \in {None, cache} /\ cache' \in {None, cache}
    BY DEF SessionStep, LoadsCached, Unlock, Lock, Logout, Crash, disk
<1>4. MemoryFit' /\ CacheOpens'
    BY <1>1, <1>3 DEF MemoryFit, MemoryFits, MemoryOpens, Fits, CacheOpens,
                      VaultOpens, KeysFit
<1> QED BY <1>1, <1>2, <1>4 DEF KeysFit, ServerFits, Served

\* Another client writes under the key it reads with.
LEMMA EditedOpens ==
    ASSUME NEW item \in Item, NEW text \in Texts, ItemOpens(item)
    PROVE  ItemOpens(Edited(item, text))
<1> DEFINE new == Edited(item, text)
           key == RealKey(item)
           fields == [item.fields EXCEPT !["password"] = Seal(text, key)]
<1>1. new.org = item.org /\ new.wrap = item.wrap /\ new.fields = fields
    BY DEF Edited, Item
<1>2. item.wrap \in Wrap \cup {None}
      /\ item.fields \in [Parts -> Sealed \cup {None}]
    BY DEF Item, Fields
<1>3. \A p \in Parts : Opens(item.fields[p], key)
    BY DEF ItemOpens
<1>4. Seal(text, key).under = key
    BY DEF Seal
<1>5. \A p \in Parts :
        fields[p] = IF p = "password" THEN Seal(text, key) ELSE item.fields[p]
    BY <1>2
<1> HIDE DEF fields, new
<1>6. \A p \in Parts : Opens(fields[p], key)
    BY <1>3, <1>4, <1>5 DEF Opens
<1>7. OpensUnder(item.org, item.wrap, item.fields)
    BY <1>2, OpensIs
<1>8. key = IF item.wrap = None THEN Owned(item.org, Orgs) ELSE item.wrap.key
  <2>1. item.wrap # None => item.wrap.key # None
      BY <1>2 DEF Wrap, Keys
  <2> QED BY <1>7, <2>1, RingKeys
          DEF OpensUnder, RealKey, CipherKey, ItemKey, DecryptCipherKey
<1> HIDE DEF key
<1>9. OpensUnder(item.org, item.wrap, fields)
    BY <1>6, <1>7, <1>8 DEF OpensUnder
<1> QED BY <1>1, <1>2, <1>9, OpensIs DEF new

LEMMA WrappedOpens ==
    ASSUME NEW item \in Item, NEW own \in OwnKeys, ItemOpens(item)
    PROVE  ItemOpens(Wrapped(item, own))
<1> DEFINE new == Wrapped(item, own)
<1>1. /\ new.org = item.org /\ new.wrap = [under |-> Owned(item.org, Orgs), key |-> own]
      /\ \A p \in Parts : item.fields[p] # None
           /\ item.fields[p].under = RealKey(item) => new.fields[p].under = own
      /\ \A p \in Parts : item.fields[p] = None => new.fields[p] = None
      /\ new \in Item
    BY WrappedType
<1> HIDE DEF new
<1>2. \A p \in Parts : Opens(new.fields[p], own)
    BY <1>1 DEF ItemOpens, Opens
<1>3. new.wrap \in Wrap \cup {None}
    BY <1>1 DEF Item
<1>4. new.wrap # None
  <2>1. [under |-> Owned(item.org, Orgs), key |-> own] \in Wrap
      BY OwnedIsKey DEF Wrap, Owners, Keys
  <2> QED BY <1>1, <2>1
<1>5. OpensUnder(new.org, new.wrap, new.fields)
    BY <1>1, <1>2, <1>4 DEF OpensUnder
<1> QED BY <1>3, <1>5, OpensIs DEF new

LEMMA OthersKeys == ASSUME TypeOK, KeysFit, OthersAct PROVE KeysFit'
<1>1. PICK i \in ItemIds, new \in Item : Fits(lost, i, new) /\ Elsewhere(i, new)
  <2>1. ASSUME NEW i \in ItemIds, NEW text \in Texts, OtherClientEdits(i, text)
        PROVE  \E new \in Item : Fits(lost, i, new) /\ Elsewhere(i, new)
    <3>1. Served(i) /\ server[i] \in Item /\ Elsewhere(i, Edited(server[i], text))
        BY <2>1, OthersStep
    <3>2. /\ Fits(lost, i, Edited(server[i], text))
          /\ Edited(server[i], text) \in Item
        BY <3>1, EditedOpens, EditedType DEF KeysFit, ServerFits, Fits, Orphaned
    <3> QED BY <3>1, <3>2
  <2>2. ASSUME NEW i \in ItemIds, NEW own \in OwnKeys, OtherClientWraps(i, own)
        PROVE  \E new \in Item : Fits(lost, i, new) /\ Elsewhere(i, new)
    <3>1. Served(i) /\ server[i] \in Item /\ Elsewhere(i, Wrapped(server[i], own))
        BY <2>2, OthersStep
    <3>2. Wrapped(server[i], own) \in Item
          /\ Wrapped(server[i], own).org = server[i].org
        BY <3>1, WrappedType
    <3>3. Fits(lost, i, server[i])
        BY <3>1 DEF KeysFit, ServerFits
    <3>4. ItemOpens(server[i]) => ItemOpens(Wrapped(server[i], own))
        BY <3>1, WrappedOpens
    <3>5. Fits(lost, i, Wrapped(server[i], own))
        BY <3>2, <3>3, <3>4 DEF Fits, Orphaned
    <3> QED BY <3>1, <3>2, <3>5
  <2> QED BY <2>1, <2>2 DEF OthersAct
<1>2. server' = [server EXCEPT ![i] = new]
      /\ UNCHANGED <<vault, cache, calls, lost>>
    BY <1>1 DEF Elsewhere, disk
<1>3. ServerFits'
    BY <1>1, <1>2, ServerOpensOn
<1> QED BY <1>2, <1>3, MemoryStill DEF KeysFit, CallsOpen

LEMMA InitKeys == Init => KeysFit
<1> SUFFICES ASSUME Init PROVE KeysFit
    OBVIOUS
<1>1. /\ server \in Vaults /\ vault = server /\ cache = server
      /\ \A i \in Ids(server) : ItemOpens(server[i])
    BY StartsAssumption DEF Init
<1>2. \A i \in ItemIds : server[i] # None => ItemOpens(server[i])
    BY <1>1 DEF Ids, Vaults
<1>3. CallsOpen
    BY IdleOpens DEF Init, CallsOpen
<1> QED BY <1>1, <1>2, <1>3 DEF KeysFit, ServerFits, Served, MemoryFit, MemoryFits,
             MemoryOpens, Fits, CacheOpens, VaultOpens

LEMMA NextKeys == TypeOK /\ KeysFit /\ [Next]_vars => KeysFit'
<1> SUFFICES ASSUME TypeOK, KeysFit, [Next]_vars PROVE KeysFit'
    OBVIOUS
<1>1. CASE UNCHANGED vars
  <2>1. UNCHANGED <<server, vault, cache, calls, lost>>
      BY <1>1 DEF vars
  <2> QED BY <2>1, MemoryStill DEF KeysFit, ServerFits, CallsOpen, Served
<1> QED BY <1>1, Steps1, StartKeys, ServerKeys, SpliceKeys, CreateSplicesKeys,
       ShareLogsKeys, SyncAppliesKeys, RequestFailsKeys, SessionKeys, OthersKeys

LEMMA KeysAlwaysFit == Spec => [](TypeOK /\ KeysFit)
<1>1. Init => TypeOK /\ KeysFit
    BY InitType, InitKeys
<1>2. TypeOK /\ KeysFit /\ [Next]_vars => TypeOK' /\ KeysFit'
    BY NextType, NextKeys
<1> QED BY <1>1, <1>2, PTL DEF Spec

\* No create, update, copy, share or change by another client, from a vault
\* however far behind, puts a part of an item on the server under a key that its
\* owner and wrapper do not lead to, unless the server kept the item's key when
\* it took a body that was written without one.
THEOREM NobodyIsLockedOut == Spec => []ServerItemsOpen
<1>1. KeysFit => ServerItemsOpen
    BY DEF KeysFit, ServerFits, ServerItemsOpen, Fits, Orphaned
<1> QED BY <1>1, KeysAlwaysFit, PTL

\* Whatever answers are spliced into whatever vault, an entry in memory is of
\* one making, but for the owner a share has put there; of an item whose key
\* the server kept of old the answer itself is not.
THEOREM MemoryIsOfOnePiece == Spec => []MemoryIsWhole
<1>1. KeysFit => MemoryIsWhole
    BY DEF KeysFit, MemoryFit, MemoryIsWhole, MemoryFits, MemoryOpens, Orphaned
<1> QED BY <1>1, KeysAlwaysFit, PTL

-----------------------------------------------------------------------------
(* Ownership: every file id and every item key is of one item for good.    *)

OwnedIn(own, t, i, item) == \A x \in Marks(item) : x \in t /\ own[x] = i
VaultOwned(own, t, items) ==
    \A i \in ItemIds : items[i] # None => OwnedIn(own, t, i, items[i])

Filed == {"data.sent", "upload.splice", "unfile.sent", "unfile.splice"}

\* What an invocation holds is of the item it is about.
CallOwned(own, t, call) ==
    /\ call.answer # None =>
         call.item # None /\ OwnedIn(own, t, call.item, call.answer)
    /\ call.listing # None => VaultOwned(own, t, call.listing)
    /\ call.body # None /\ call.body.wrap # None =>
         /\ call.item # None /\ call.at # "create.sent"
         /\ call.body.wrap.key \in t /\ own[call.body.wrap.key] = call.item
    /\ call.at \in Filed => call.file.id \in t /\ own[call.file.id] = call.item
    /\ call.at = "slot.sent" => call.file.id \notin t

MarksOwned(own) ==
    /\ \A i \in ItemIds : Served(i) => OwnedIn(own, taken, i, server[i])
    /\ vault # None => VaultOwned(own, taken, vault)
    /\ cache # None => VaultOwned(own, taken, cache)
    /\ \A c \in Calls : CallOwned(own, taken, calls[c])

\* Two uploads are about to announce two ids.
SlotsApart ==
    \A c, d \in Calls :
        c # d /\ calls[c].at = "slot.sent" /\ calls[d].at = "slot.sent"
        => calls[c].file.id # calls[d].file.id

\* A stored file stays stored while its item lists it.
UploadsStored ==
    \A c \in Calls :
        LET i == calls[c].item IN
        calls[c].at = "upload.splice" /\ Served(i)
          /\ (\E f \in server[i].files : f.id = calls[c].file.id)
        => calls[c].file.id \in bytes

Owning == [FileIds \cup OwnKeys -> ItemIds \cup {None}]
Separate ==
    SlotsApart /\ UploadsStored /\ \E own \in Owning : MarksOwned(own)

\* Nothing taken is given away.
Extends(own, own2, t, t2) == t \subseteq t2 /\ \A x \in t : own2[x] = own[x]

LEMMA OwnedStays ==
    ASSUME NEW own, NEW own2, NEW t, NEW t2, Extends(own, own2, t, t2),
           NEW i, NEW item, OwnedIn(own, t, i, item)
    PROVE  OwnedIn(own2, t2, i, item)
BY DEF Extends, OwnedIn

LEMMA VaultStays ==
    ASSUME NEW own, NEW own2, NEW t, NEW t2, Extends(own, own2, t, t2),
           NEW items, VaultOwned(own, t, items)
    PROVE  VaultOwned(own2, t2, items)
BY OwnedStays DEF VaultOwned

LEMMA CallStays ==
    ASSUME NEW own, NEW own2, NEW t, NEW t2, Extends(own, own2, t, t2),
           NEW call, CallOwned(own, t, call),
           call.at = "slot.sent" => call.file.id \notin t2
    PROVE  CallOwned(own2, t2, call)
<1>1. call.answer # None =>
        call.item # None /\ OwnedIn(own2, t2, call.item, call.answer)
    BY OwnedStays DEF CallOwned
<1>2. call.listing # None => VaultOwned(own2, t2, call.listing)
    BY VaultStays DEF CallOwned
<1>3. call.body # None /\ call.body.wrap # None =>
         /\ call.item # None /\ call.at # "create.sent"
         /\ call.body.wrap.key \in t2 /\ own2[call.body.wrap.key] = call.item
    BY DEF CallOwned, Extends
<1>4. call.at \in Filed => call.file.id \in t2 /\ own2[call.file.id] = call.item
    BY DEF CallOwned, Extends
<1> QED BY <1>1, <1>2, <1>3, <1>4 DEF CallOwned

LEMMA NothingGivenAway == ASSUME NEW own, NEW t PROVE Extends(own, own, t, t)
BY DEF Extends

LEMMA IdleOwned == ASSUME NEW own, NEW t PROVE CallOwned(own, t, Idle)
BY DEF CallOwned, Idle, Filed

\* Marks come with files and with the wrapper.
LEMMA MarksOf ==
    ASSUME NEW own, NEW t, NEW i, NEW item,
           \A f \in item.files : f.id \in t /\ own[f.id] = i,
           item.wrap # None => item.wrap.key \in t /\ own[item.wrap.key] = i
    PROVE  OwnedIn(own, t, i, item)
BY DEF OwnedIn, Marks

LEMMA MarksAre ==
    ASSUME NEW own, NEW t, NEW i, NEW item, OwnedIn(own, t, i, item)
    PROVE  /\ \A f \in item.files : f.id \in t /\ own[f.id] = i
           /\ item.wrap # None => item.wrap.key \in t /\ own[item.wrap.key] = i
BY DEF OwnedIn, Marks

\* A step that moves one call and gives out a mark at most.
LEMMA MarksStay ==
    ASSUME TypeOK, NEW own, NEW own2, MarksOwned(own),
           Extends(own, own2, taken, taken'),
           NEW c \in Calls, NEW next, calls' = [calls EXCEPT ![c] = next],
           CallOwned(own2, taken', next),
           \A d \in Calls : d # c /\ calls[d].at = "slot.sent"
             => calls[d].file.id \notin taken',
           \A i \in ItemIds : Served(i)' => OwnedIn(own2, taken', i, server'[i]),
           vault' # None => VaultOwned(own2, taken', vault'),
           cache' # None => VaultOwned(own2, taken', cache')
    PROVE  MarksOwned(own2)'
<1>1. ASSUME NEW d \in Calls PROVE CallOwned(own2, taken', calls'[d])
  <2>1. calls'[d] = IF d = c THEN next ELSE calls[d]
      BY DEF TypeOK
  <2>2. CASE d # c
      BY <2>1, <2>2, CallStays DEF MarksOwned
  <2> QED BY <2>1, <2>2
<1> QED BY <1>1 DEF MarksOwned, VaultOwned, OwnedIn, CallOwned

\* Steps that give nothing out and leave the server alone.
LEMMA MarksKept ==
    ASSUME TypeOK, NEW own, MarksOwned(own), UNCHANGED <<server, taken>>,
           NEW c \in Calls, NEW next, calls' = [calls EXCEPT ![c] = next],
           CallOwned(own, taken, next),
           vault' # None => VaultOwned(own, taken, vault'),
           cache' # None => VaultOwned(own, taken, cache')
    PROVE  MarksOwned(own)'
<1>1. ASSUME NEW d \in Calls PROVE CallOwned(own, taken, calls'[d])
    BY DEF TypeOK, MarksOwned
<1>2. \A i \in ItemIds : Served(i)' => OwnedIn(own, taken', i, server'[i])
    BY DEF MarksOwned, Served
<1> QED BY <1>1, <1>2 DEF MarksOwned, VaultOwned, OwnedIn, CallOwned

LEMMA SlotsStay ==
    ASSUME TypeOK, SlotsApart, NEW c \in Calls, NEW next,
           calls' = [calls EXCEPT ![c] = next],
           next.at = "slot.sent" => \A d \in Calls :
             d # c /\ calls[d].at = "slot.sent" => calls[d].file.id # next.file.id
    PROVE  SlotsApart'
<1>1. \A d \in Calls : calls'[d] = IF d = c THEN next ELSE calls[d]
    BY DEF TypeOK
<1> QED BY <1>1 DEF SlotsApart

\* Steps that leave the server and its files alone.
LEMMA UploadsStay ==
    ASSUME TypeOK, UploadsStored, NEW c \in Calls, NEW next,
           calls' = [calls EXCEPT ![c] = next], next.at # "upload.splice",
           UNCHANGED <<server, bytes>>
    PROVE  UploadsStored'
<1>1. \A d \in Calls : calls'[d] = IF d = c THEN next ELSE calls[d]
    BY DEF TypeOK
<1> QED BY <1>1 DEF UploadsStored, Served

LEMMA StartSeparate ==
    ASSUME TypeOK, Separate, NEW c \in Calls, StartStep(c) PROVE Separate'
<1>1. PICK next : Begins(c, next) /\ StartFits(next)
    BY StartStarted DEF Started
<1>2. PICK own \in Owning : MarksOwned(own)
    BY DEF Separate
<1>3. /\ calls' = [calls EXCEPT ![c] = next] /\ next \in Call /\ Holds(next)
      /\ UNCHANGED <<server, bytes, vault, cache, taken>>
      /\ next.answer = None /\ next.listing = None
    BY <1>1 DEF Begins
<1>4. next.body # None /\ next.body.wrap # None =>
         /\ next.item # None /\ next.at # "create.sent"
         /\ next.body.wrap.key \in taken /\ own[next.body.wrap.key] = next.item
  <2> SUFFICES ASSUME next.body # None, next.body.wrap # None
               PROVE  /\ next.item # None /\ next.at # "create.sent"
                      /\ next.body.wrap.key \in taken
                      /\ own[next.body.wrap.key] = next.item
      OBVIOUS
  <2>1. /\ next.at # "create.sent" /\ next.item \in ItemIds /\ Known(next.item)
        /\ vault[next.item].wrap # None
        /\ next.body.wrap.key = vault[next.item].wrap.key
      BY <1>1 DEF StartFits, BodyWraps
  <2>2. OwnedIn(own, taken, next.item, vault[next.item])
      BY <1>2, <2>1 DEF MarksOwned, VaultOwned, Known
  <2> QED BY <2>1, <2>2, MarksAre, Sentinels
<1>5. next.at \in Filed => next.file.id \in taken /\ own[next.file.id] = next.item
  <2> SUFFICES ASSUME next.at \in Filed
               PROVE  next.file.id \in taken /\ own[next.file.id] = next.item
      OBVIOUS
  <2>1. next.at = "unfile.sent"
      BY <1>1 DEF StartFits, Filed, Sent
  <2>2. next.item \in ItemIds
      BY <1>3, <2>1 DEF Holds, Call
  <2>3. Known(next.item) /\ next.file \in vault[next.item].files
      BY <1>1, <2>1 DEF StartFits, FileFits
  <2>4. OwnedIn(own, taken, next.item, vault[next.item])
      BY <1>2, <2>2, <2>3 DEF MarksOwned, VaultOwned, Known
  <2> QED BY <2>3, <2>4, MarksAre
<1>6. next.at = "slot.sent" =>
        /\ next.file.id \notin taken
        /\ \A d \in Calls : calls[d].file # None => calls[d].file.id # next.file.id
    BY <1>1 DEF StartFits, FileFits
<1>7. CallOwned(own, taken, next)
    BY <1>3, <1>4, <1>5, <1>6 DEF CallOwned
<1>8. MarksOwned(own)'
    BY <1>2, <1>3, <1>7, MarksKept DEF MarksOwned
<1>9. SlotsApart'
  <2>1. \A d \in Calls : calls[d].at = "slot.sent" => calls[d].file # None
      BY CallType DEF Holds
  <2> QED BY <1>3, <1>6, <2>1, SlotsStay DEF Separate
<1>10. UploadsStored'
  <2>1. next.at # "upload.splice"
      BY <1>1 DEF StartFits, Sent
  <2> QED BY <1>3, <2>1, UploadsStay DEF Separate
<1> QED BY <1>2, <1>8, <1>9, <1>10 DEF Separate

\* A request handled for one item, which keeps its marks or gets one that was
\* not given out.
LEMMA ServedMarks ==
    ASSUME TypeOK, NEW own, NEW own2, MarksOwned(own),
           Extends(own, own2, taken, taken'),
           NEW c \in Calls, NEW next, calls' = [calls EXCEPT ![c] = next],
           CallOwned(own2, taken', next),
           \A d \in Calls : d # c /\ calls[d].at = "slot.sent"
             => calls[d].file.id \notin taken',
           NEW i \in ItemIds, NEW new, server' = [server EXCEPT ![i] = new],
           new \notin {None, Gone} => OwnedIn(own2, taken', i, new),
           UNCHANGED <<vault, cache>>
    PROVE  MarksOwned(own2)'
<1>1. \A j \in ItemIds : server'[j] = IF j = i THEN new ELSE server[j]
    BY DEF TypeOK
<1>2. ASSUME NEW j \in ItemIds, Served(j)' PROVE OwnedIn(own2, taken', j, server'[j])
  <2>1. CASE j = i
      BY <1>1, <1>2, <2>1 DEF Served
  <2>2. CASE j # i
    <3>1. OwnedIn(own, taken, j, server[j]) /\ server'[j] = server[j]
        BY <1>1, <1>2, <2>2 DEF Served, MarksOwned
    <3> QED BY <3>1, OwnedStays
  <2> QED BY <2>1, <2>2
<1>3. vault' # None => VaultOwned(own2, taken', vault')
    BY VaultStays DEF MarksOwned
<1>4. cache' # None => VaultOwned(own2, taken', cache')
    BY VaultStays DEF MarksOwned
<1> QED BY <1>2, <1>3, <1>4, MarksStay

\* The item a request is about owns what is served.
LEMMA AddressedOwned ==
    ASSUME NEW own, MarksOwned(own), NEW c, NEW i \in ItemIds, Addressed(c, i)
    PROVE  OwnedIn(own, taken, i, server[i])
BY DEF Addressed, MarksOwned

LEMMA CallIsOwned ==
    ASSUME NEW own, MarksOwned(own), NEW c \in Calls
    PROVE  CallOwned(own, taken, calls[c])
BY DEF MarksOwned

LEMMA CreatesSeparate ==
    ASSUME TypeOK, Separate, NEW c \in Calls, NEW i \in ItemIds, NEW new,
           NEW next, Creates(c, i, new, next)
    PROVE  Separate'
<1>1. PICK own \in Owning : MarksOwned(own)
    BY DEF Separate
<1>2. /\ calls' = [calls EXCEPT ![c] = next] /\ server' = [server EXCEPT ![i] = new]
      /\ UNCHANGED <<bytes, vault, cache, taken>> /\ server[i] = None
      /\ next.at = "create.splice" /\ next.item = i /\ next.answer = new
      /\ next.body = calls[c].body /\ next.listing = calls[c].listing
      /\ calls[c].at = "create.sent" /\ calls[c].body # None
    BY DEF Creates, Advances
<1>3. new.files = {} /\ new.wrap = None
    BY <1>1, <1>2, CallIsOwned DEF Creates, CallOwned
<1>4. OwnedIn(own, taken, i, new)
    BY <1>3, MarksOf
<1>5. CallOwned(own, taken, next)
    BY <1>1, <1>2, <1>3, <1>4, CallIsOwned, Sentinels DEF CallOwned, Creates, Filed
<1>6. MarksOwned(own)'
  <2>1. \A d \in Calls : d # c /\ calls[d].at = "slot.sent"
          => calls[d].file.id \notin taken'
      BY <1>1, <1>2 DEF MarksOwned, CallOwned
  <2>2. Extends(own, own, taken, taken')
      BY <1>2 DEF Extends
  <2> QED BY <1>1, <1>2, <1>4, <1>5, <2>1, <2>2, ServedMarks
<1>7. SlotsApart'
    BY <1>2, SlotsStay DEF Separate
<1>8. UploadsStored'
  <2>1. \A d \in Calls : calls'[d] = IF d = c THEN next ELSE calls[d]
      BY <1>2 DEF TypeOK
  <2>2. \A j \in ItemIds : server'[j] = IF j = i THEN new ELSE server[j]
      BY <1>2 DEF TypeOK
  <2>3. \A d \in Calls : calls[d].at = "upload.splice" => calls[d].item \in ItemIds
      BY CallType DEF Holds, Answered
  <2> QED BY <1>2, <1>3, <2>1, <2>2, <2>3 DEF Separate, UploadsStored, Served
<1> QED BY <1>1, <1>6, <1>7, <1>8 DEF Separate

LEMMA RewritesSeparate ==
    ASSUME TypeOK, Separate, NEW c \in Calls, NEW i \in ItemIds, NEW new,
           NEW next, Rewrites(c, i, new, next)
    PROVE  Separate'
<1>1. PICK own \in Owning : MarksOwned(own)
    BY DEF Separate
<1>2. /\ calls' = [calls EXCEPT ![c] = next] /\ server' = [server EXCEPT ![i] = new]
      /\ UNCHANGED <<bytes, vault, cache, taken>> /\ Addressed(c, i)
      /\ next.at \in {"update.splice", "share.mark"}
      /\ next.item = i /\ next.answer \in {new, calls[c].answer}
      /\ next.body = calls[c].body /\ next.listing = calls[c].listing
      /\ calls[c].item = i /\ calls[c].body # None
      /\ new.files = server[i].files
      /\ new.wrap \in {calls[c].body.wrap, server[i].wrap}
    BY DEF Rewrites, Advances, Addressed, KeptWraps
<1>3. OwnedIn(own, taken, i, new)
  <2>1. \A f \in new.files : f.id \in taken /\ own[f.id] = i
      BY <1>1, <1>2, AddressedOwned, MarksAre
  <2>2. new.wrap # None => new.wrap.key \in taken /\ own[new.wrap.key] = i
    <3>1. CASE new.wrap = calls[c].body.wrap
        BY <1>1, <1>2, <3>1, CallIsOwned DEF CallOwned
    <3>2. CASE new.wrap = server[i].wrap
        BY <1>1, <1>2, <3>2, AddressedOwned, MarksAre
    <3> QED BY <1>2, <3>1, <3>2
  <2> QED BY <2>1, <2>2, MarksOf
<1>4. CallOwned(own, taken, next)
    BY <1>1, <1>2, <1>3, CallIsOwned, Sentinels DEF CallOwned, Filed
<1>5. MarksOwned(own)'
  <2>1. \A d \in Calls : d # c /\ calls[d].at = "slot.sent"
          => calls[d].file.id \notin taken'
      BY <1>1, <1>2 DEF MarksOwned, CallOwned
  <2>2. Extends(own, own, taken, taken')
      BY <1>2 DEF Extends
  <2> QED BY <1>1, <1>2, <1>3, <1>4, <2>1, <2>2, ServedMarks
<1>6. SlotsApart'
    BY <1>2, SlotsStay DEF Separate
<1>7. UploadsStored'
  <2>1. \A d \in Calls : calls'[d] = IF d = c THEN next ELSE calls[d]
      BY <1>2 DEF TypeOK
  <2>2. \A j \in ItemIds : server'[j] = IF j = i THEN new ELSE server[j]
      BY <1>2 DEF TypeOK
  <2>3. \A d \in Calls : calls[d].at = "upload.splice" => calls[d].item \in ItemIds
      BY CallType DEF Holds, Answered
  <2> QED BY <1>2, <2>1, <2>2, <2>3 DEF Separate, UploadsStored, Served, Addressed
<1> QED BY <1>1, <1>5, <1>6, <1>7 DEF Separate

LEMMA AltersSeparate ==
    ASSUME TypeOK, Separate, NEW c \in Calls, NEW i \in ItemIds, NEW new,
           NEW next, Alters(c, i, new, next)
    PROVE  Separate'
<1>1. PICK own \in Owning : MarksOwned(own)
    BY DEF Separate
<1>2. /\ calls' = [calls EXCEPT ![c] = next] /\ server' = [server EXCEPT ![i] = new]
      /\ UNCHANGED <<vault, cache>> /\ Addressed(c, i)
      /\ next.at \in {"move.splice", "flag.splice", "unfile.splice", "data.sent"}
      /\ next.item = i /\ next.file = calls[c].file
      /\ next.body = calls[c].body /\ next.listing = calls[c].listing
      /\ calls[c].item = i /\ calls[c].at # "create.sent"
      /\ new.wrap = server[i].wrap
    BY DEF Alters, Advances, Addressed
<1>3. OwnedIn(own, taken, i, server[i])
    BY <1>1, <1>2, AddressedOwned
<1>4. \A d \in Calls : calls'[d] = IF d = c THEN next ELSE calls[d]
    BY <1>2 DEF TypeOK
<1>5. \A j \in ItemIds : server'[j] = IF j = i THEN new ELSE server[j]
    BY <1>2 DEF TypeOK
<1>6. \A d \in Calls : calls[d].at = "upload.splice" => calls[d].item \in ItemIds
    BY CallType DEF Holds, Answered
<1>7. SlotsApart'
    BY <1>2, SlotsStay DEF Separate
<1>8. CASE calls[c].at # "slot.sent"
  <2>1. /\ new.files \subseteq server[i].files /\ UNCHANGED taken
        /\ next.answer = calls[c].answer
        /\ next.at = "unfile.splice" => calls[c].at = "unfile.sent"
        /\ next.at # "data.sent"
      BY <1>8 DEF Alters, Advances
  <2>2. OwnedIn(own, taken, i, new)
      BY <1>2, <1>3, <2>1, MarksAre, MarksOf
  <2>3. CallOwned(own, taken, next)
      BY <1>1, <1>2, <2>1, CallIsOwned DEF CallOwned, Filed
  <2>4. MarksOwned(own)'
    <3>1. \A d \in Calls : d # c /\ calls[d].at = "slot.sent"
            => calls[d].file.id \notin taken'
        BY <1>1, <2>1 DEF MarksOwned, CallOwned
    <3>2. Extends(own, own, taken, taken')
        BY <2>1 DEF Extends
    <3> QED BY <1>1, <1>2, <2>1, <2>2, <2>3, <3>1, <3>2, ServedMarks
  <2>5. UploadsStored'
    <3>1. CASE calls[c].at # "unfile.sent"
      <4>1. UNCHANGED bytes
          BY <1>8, <3>1 DEF Alters
      <4> QED BY <1>2, <1>4, <1>5, <1>6, <2>1, <4>1
              DEF Separate, UploadsStored, Served, Addressed
    <3>2. CASE calls[c].at = "unfile.sent"
      <4>1. /\ bytes' = bytes \ {calls[c].file.id}
            /\ new.files = {f \in server[i].files : f.id # calls[c].file.id}
          BY <3>2 DEF Alters
      <4>2. own[calls[c].file.id] = i
          BY <1>1, <1>2, <3>2, CallIsOwned DEF CallOwned, Filed
      <4>3. \A d \in Calls : calls[d].at = "upload.splice"
              => own[calls[d].file.id] = calls[d].item
          BY <1>1 DEF MarksOwned, CallOwned, Filed
      <4>4. ASSUME NEW d \in Calls, calls'[d].at = "upload.splice",
                   Served(calls[d].item)', NEW f \in server'[calls'[d].item].files,
                   f.id = calls'[d].file.id
            PROVE  calls'[d].file.id \in bytes'
        <5>1. d # c /\ calls'[d] = calls[d]
            BY <1>2, <1>4, <4>4
        <5>2. calls[d].file.id # calls[c].file.id
            BY <1>5, <4>1, <4>2, <4>3, <4>4, <5>1
        <5>3. Served(calls[d].item) /\ f \in server[calls[d].item].files
            BY <1>2, <1>5, <1>6, <2>1, <4>4, <5>1 DEF Served, Addressed
        <5> QED BY <4>1, <4>4, <5>1, <5>2, <5>3 DEF Separate, UploadsStored
      <4> QED BY <4>4 DEF UploadsStored
    <3> QED BY <3>1, <3>2
  <2> QED BY <1>1, <1>7, <2>4, <2>5 DEF Separate
<1>9. CASE calls[c].at = "slot.sent"
  <2> DEFINE id == calls[c].file.id
  <2>1. /\ next.at = "data.sent" /\ next.answer = new
        /\ new.files = server[i].files \cup {calls[c].file}
        /\ taken' = taken \cup {id} /\ UNCHANGED bytes /\ calls[c].file \in File
      BY <1>9 DEF Alters, Advances
  <2>2. id \in FileIds /\ id \notin taken
      BY <1>1, <1>9, <2>1, CallIsOwned DEF CallOwned, File
  <2>3. PICK own2 \in Owning : own2[id] = i /\ \A x \in taken : own2[x] = own[x]
    <3> DEFINE new2 == [own EXCEPT ![id] = i]
    <3>1. taken \subseteq FileIds \cup OwnKeys
        BY DEF TypeOK
    <3>2. new2 \in Owning /\ new2[id] = i /\ \A x \in taken : new2[x] = own[x]
        BY <2>2, <3>1 DEF Owning
    <3> QED BY <3>2
  <2>4. Extends(own, own2, taken, taken')
      BY <2>1, <2>3 DEF Extends
  <2>5. OwnedIn(own2, taken', i, new)
    <3>1. OwnedIn(own2, taken', i, server[i])
        BY <1>3, <2>4, OwnedStays
    <3>2. /\ \A f \in server[i].files : f.id \in taken' /\ own2[f.id] = i
          /\ server[i].wrap # None =>
               server[i].wrap.key \in taken' /\ own2[server[i].wrap.key] = i
        BY <3>1, MarksAre
    <3>3. \A f \in new.files : f.id \in taken' /\ own2[f.id] = i
        BY <2>1, <2>3, <3>2
    <3>4. new.wrap # None => new.wrap.key \in taken' /\ own2[new.wrap.key] = i
        BY <1>2, <3>2
    <3> QED BY <3>3, <3>4, MarksOf
  <2>6. CallOwned(own2, taken', next)
    <3>1. /\ calls[c].listing # None => VaultOwned(own2, taken', calls[c].listing)
          /\ calls[c].body # None /\ calls[c].body.wrap # None =>
               /\ calls[c].body.wrap.key \in taken'
               /\ own2[calls[c].body.wrap.key] = i
        BY <1>1, <1>2, <2>4, CallIsOwned, VaultStays DEF CallOwned, Extends
    <3> QED BY <1>2, <2>1, <2>3, <2>5, <3>1, Sentinels DEF CallOwned, Filed
  <2>7. \A d \in Calls : d # c /\ calls[d].at = "slot.sent"
          => calls[d].file.id \notin taken'
      BY <1>1, <1>9, <2>1 DEF MarksOwned, CallOwned, Separate, SlotsApart
  <2>8. MarksOwned(own2)'
      BY <1>1, <1>2, <2>4, <2>5, <2>6, <2>7, ServedMarks
  <2>9. UploadsStored'
    <3>1. \A d \in Calls : calls[d].at = "upload.splice" => calls[d].file.id # id
        BY <1>1, <2>2 DEF MarksOwned, CallOwned, Filed
    <3> QED BY <1>2, <1>4, <1>5, <1>6, <2>1, <3>1
            DEF Separate, UploadsStored, Served, Addressed
  <2> QED BY <1>7, <2>3, <2>8, <2>9 DEF Separate
<1> QED BY <1>8, <1>9

LEMMA DeletesSeparate ==
    ASSUME TypeOK, Separate, NEW c \in Calls, NEW i \in ItemIds,
           NEW next, Deletes(c, i, next)
    PROVE  Separate'
<1>1. PICK own \in Owning : MarksOwned(own)
    BY DEF Separate
<1>2. /\ calls' = [calls EXCEPT ![c] = next] /\ server' = [server EXCEPT ![i] = Gone]
      /\ UNCHANGED <<vault, cache, taken>> /\ Addressed(c, i)
      /\ next.at = "delete.splice" /\ next.item = i
      /\ next.answer = calls[c].answer /\ next.body = calls[c].body
      /\ next.listing = calls[c].listing /\ calls[c].item = i
      /\ bytes' = bytes \ {f.id : f \in server[i].files}
    BY DEF Deletes, Advances, Addressed
<1>3. CallOwned(own, taken, next)
    BY <1>1, <1>2, CallIsOwned DEF CallOwned, Filed
<1>4. MarksOwned(own)'
  <2>1. \A d \in Calls : d # c /\ calls[d].at = "slot.sent"
          => calls[d].file.id \notin taken'
      BY <1>1, <1>2 DEF MarksOwned, CallOwned
  <2>2. Extends(own, own, taken, taken')
      BY <1>2 DEF Extends
  <2> QED BY <1>1, <1>2, <1>3, <2>1, <2>2, ServedMarks
<1>5. SlotsApart'
    BY <1>2, SlotsStay DEF Separate
<1>6. UploadsStored'
  <2>1. \A d \in Calls : calls'[d] = IF d = c THEN next ELSE calls[d]
      BY <1>2 DEF TypeOK
  <2>2. \A j \in ItemIds : server'[j] = IF j = i THEN Gone ELSE server[j]
      BY <1>2 DEF TypeOK
  <2>3. \A d \in Calls : calls[d].at = "upload.splice" =>
          calls[d].item \in ItemIds /\ own[calls[d].file.id] = calls[d].item
      BY <1>1, CallType DEF Holds, Answered, MarksOwned, CallOwned, Filed
  <2>4. \A f \in server[i].files : own[f.id] = i
      BY <1>1, <1>2, AddressedOwned, MarksAre
  <2>5. ASSUME NEW d \in Calls, calls'[d].at = "upload.splice",
               Served(calls[d].item)', NEW f \in server'[calls'[d].item].files,
               f.id = calls'[d].file.id
        PROVE  calls'[d].file.id \in bytes'
    <3>1. d # c /\ calls'[d] = calls[d]
        BY <1>2, <2>1, <2>5
    <3>2. calls[d].item # i
        BY <2>2, <2>5, <3>1 DEF Served
    <3>3. calls[d].file.id \notin {g.id : g \in server[i].files}
        BY <2>3, <2>4, <2>5, <3>1, <3>2
    <3>4. Served(calls[d].item) /\ f \in server[calls[d].item].files
        BY <2>2, <2>3, <2>5, <3>1, <3>2 DEF Served
    <3> QED BY <1>2, <2>5, <3>1, <3>3, <3>4 DEF Separate, UploadsStored
  <2> QED BY <2>5 DEF UploadsStored
<1> QED BY <1>1, <1>4, <1>5, <1>6 DEF Separate

LEMMA StoresSeparate ==
    ASSUME TypeOK, Separate, NEW c \in Calls, NEW i \in ItemIds,
           NEW next, Stores(c, i, next)
    PROVE  Separate'
<1>1. PICK own \in Owning : MarksOwned(own)
    BY DEF Separate
<1>2. /\ calls' = [calls EXCEPT ![c] = next]
      /\ UNCHANGED <<server, vault, cache, taken>>
      /\ next.at = "upload.splice" /\ next.item = i
      /\ next.answer = calls[c].answer /\ next.body = calls[c].body
      /\ next.file = calls[c].file /\ next.listing = calls[c].listing
      /\ calls[c].item = i /\ calls[c].at = "data.sent"
      /\ bytes' = bytes \cup {calls[c].file.id}
    BY DEF Stores, Advances, Addressed
<1>3. CallOwned(own, taken, next)
    BY <1>1, <1>2, CallIsOwned DEF CallOwned, Filed
<1>4. MarksOwned(own)'
    BY <1>1, <1>2, <1>3, MarksKept DEF MarksOwned
<1>5. SlotsApart'
    BY <1>2, SlotsStay DEF Separate
<1>6. UploadsStored'
  <2>1. \A d \in Calls : calls'[d] = IF d = c THEN next ELSE calls[d]
      BY <1>2 DEF TypeOK
  <2> QED BY <1>2, <2>1 DEF Separate, UploadsStored, Served
<1> QED BY <1>1, <1>4, <1>5, <1>6 DEF Separate

LEMMA ListsSeparate ==
    ASSUME TypeOK, Separate, NEW c \in Calls, NEW next, Lists(c, next)
    PROVE  Separate'
<1>1. PICK own \in Owning : MarksOwned(own)
    BY DEF Separate
<1>2. /\ calls' = [calls EXCEPT ![c] = next]
      /\ UNCHANGED <<server, bytes, vault, cache, taken>>
      /\ next.at = "sync.apply" /\ next.item = calls[c].item
      /\ next.answer = calls[c].answer /\ next.body = calls[c].body
      /\ next.listing = Listing /\ calls[c].at = "sync.sent"
    BY DEF Lists, Advances
<1>3. VaultOwned(own, taken, Listing)
    BY <1>1 DEF VaultOwned, Listing, MarksOwned
<1>4. CallOwned(own, taken, next)
    BY <1>1, <1>2, <1>3, CallIsOwned DEF CallOwned, Filed
<1>5. MarksOwned(own)'
    BY <1>1, <1>2, <1>4, MarksKept DEF MarksOwned
<1> QED BY <1>1, <1>2, <1>5, SlotsStay, UploadsStay DEF Separate

LEMMA ServerSeparate ==
    ASSUME TypeOK, Separate, NEW c \in Calls, ServerStep(c) PROVE Separate'
BY ServerStepIs, CreatesSeparate, RewritesSeparate, AltersSeparate,
   DeletesSeparate, StoresSeparate, ListsSeparate DEF ServesOne

\* The last window of a command.
LEMMA ReturnSeparate ==
    ASSUME TypeOK, Separate, NEW c \in Calls, Return(c),
           UNCHANGED <<server, bytes, taken>>,
           \A own \in Owning : MarksOwned(own) =>
             /\ vault' # None => VaultOwned(own, taken, vault')
             /\ cache' # None => VaultOwned(own, taken, cache')
    PROVE  Separate'
<1>1. PICK own \in Owning : MarksOwned(own)
    BY DEF Separate
<1>2. calls' = [calls EXCEPT ![c] = Idle] /\ Idle.at = "idle"
    BY DEF Return, Goto, Idle
<1>3. MarksOwned(own)'
    BY <1>1, <1>2, IdleOwned, MarksKept
<1> QED BY <1>1, <1>2, <1>3, SlotsStay, UploadsStay DEF Separate

LEMMA EntrySeparate ==
    ASSUME TypeOK, NEW own, NEW t, NEW i \in ItemIds, NEW new,
           vault \in Vaults, VaultOwned(own, t, vault),
           new # None => OwnedIn(own, t, i, new),
           vault' = [vault EXCEPT ![i] = new]
    PROVE  VaultOwned(own, t, vault')
<1>1. \A j \in ItemIds : vault'[j] = IF j = i THEN new ELSE vault[j]
    BY DEF Vaults
<1> QED BY <1>1 DEF VaultOwned

LEMMA SpliceSeparate ==
    ASSUME TypeOK, Separate, NEW c \in Calls, SpliceStep(c) PROVE Separate'
<1>0. PICK i \in ItemIds : \E new : Splices(c, i, new)
    BY SpliceStepIs
<1>1. PICK new : Splices(c, i, new)
    BY <1>0
<1>2. UNCHANGED <<server, bytes, taken, cache>> /\ Return(c)
      /\ i = calls[c].item
    BY <1>1 DEF Splices, Splice, disk
<1>3. ASSUME NEW own \in Owning, MarksOwned(own), vault' # None
      PROVE  VaultOwned(own, taken, vault')
  <2>1. CASE ~Known(i)
      BY <1>1, <1>3, <2>1 DEF Splices, Splice, MarksOwned
  <2>2. CASE Known(i)
    <3>1. vault' = [vault EXCEPT ![i] = new] /\ vault \in Vaults /\ vault # None
        BY <1>1, <2>2 DEF Splices, Splice, Known
    <3>2. OwnedIn(own, taken, i, vault[i]) /\ VaultOwned(own, taken, vault)
        BY <1>3, <2>2 DEF MarksOwned, VaultOwned, Known
    <3>3. ASSUME new # None PROVE OwnedIn(own, taken, i, new)
      <4>1. Adopts(c, new) \/ Shares(c, vault[i], new) \/ Touches(c, vault[i], new)
          BY <1>1, <2>2, <3>3 DEF Splices
      <4>2. CASE Adopts(c, new)
          BY <1>2, <1>3, <3>3, <4>2, CallIsOwned DEF Adopts, CallOwned
      <4>3. CASE Shares(c, vault[i], new) \/ Touches(c, vault[i], new)
        <5>1. new.wrap = vault[i].wrap /\ new.files \subseteq vault[i].files
            BY <4>3 DEF Shares, Touches
        <5> QED BY <3>2, <5>1, MarksAre, MarksOf
      <4> QED BY <4>1, <4>2, <4>3
    <3> QED BY <3>1, <3>2, <3>3, EntrySeparate
  <2> QED BY <2>1, <2>2
<1>4. \A own \in Owning : MarksOwned(own) /\ cache' # None =>
        VaultOwned(own, taken, cache')
    BY <1>2 DEF MarksOwned
<1> QED BY <1>2, <1>3, <1>4, ReturnSeparate

LEMMA CreateSplicesSeparate ==
    ASSUME TypeOK, Separate, NEW c \in Calls, CreateSplices(c) PROVE Separate'
<1> DEFINE i == calls[c].item
<1>1. UNCHANGED <<server, bytes, taken, cache>> /\ Return(c)
    BY DEF CreateSplices, disk
<1>2. i \in ItemIds /\ calls[c].answer # None
    BY CallType DEF CreateSplices, Holds
<1>3. ASSUME NEW own \in Owning, MarksOwned(own), vault' # None
      PROVE  VaultOwned(own, taken, vault')
  <2>1. CASE vault = None \/ Known(i)
      BY <1>3, <2>1 DEF CreateSplices, MarksOwned
  <2>2. CASE vault # None /\ ~Known(i)
    <3>1. vault' = [vault EXCEPT ![i] = calls[c].answer] /\ vault \in Vaults
        BY <2>2 DEF CreateSplices, TypeOK
    <3>2. OwnedIn(own, taken, i, calls[c].answer)
        BY <1>2, <1>3, CallIsOwned DEF CallOwned
    <3>3. VaultOwned(own, taken, vault)
        BY <1>3, <2>2 DEF MarksOwned
    <3> QED BY <1>2, <3>1, <3>2, <3>3, EntrySeparate
  <2> QED BY <2>1, <2>2
<1>4. \A own \in Owning : MarksOwned(own) /\ cache' # None =>
        VaultOwned(own, taken, cache')
    BY <1>1 DEF MarksOwned
<1> QED BY <1>1, <1>3, <1>4, ReturnSeparate

LEMMA ShareLogsSeparate ==
    ASSUME TypeOK, Separate, NEW c \in Calls, ShareSaves(c) \/ ShareMarks(c)
    PROVE  Separate'
<1>1. PICK to \in {"share.sent", "share.splice"} :
        calls' = [calls EXCEPT ![c] = [calls[c] EXCEPT !.at = to]]
    BY DEF ShareSaves, ShareMarks, Goto
<1> DEFINE next == [calls[c] EXCEPT !.at = to]
<1>2. /\ next.body = calls[c].body /\ next.answer = calls[c].answer
      /\ next.listing = calls[c].listing /\ next.item = calls[c].item
      /\ next.at = to
    BY CallType, Moved DEF Steps, Sent
<1>3. calls' = [calls EXCEPT ![c] = next]
    BY <1>1
<1> HIDE DEF next
<1>4. UNCHANGED <<server, bytes, vault, cache, taken>>
    BY DEF ShareSaves, ShareMarks
<1>5. PICK own \in Owning : MarksOwned(own)
    BY DEF Separate
<1>6. CallOwned(own, taken, next)
    BY <1>2, <1>5, CallIsOwned DEF CallOwned, Filed
<1>7. MarksOwned(own)'
    BY <1>3, <1>4, <1>5, <1>6, MarksKept DEF MarksOwned
<1> QED BY <1>2, <1>3, <1>4, <1>5, <1>7, SlotsStay, UploadsStay DEF Separate

LEMMA SyncAppliesSeparate ==
    ASSUME TypeOK, Separate, NEW c \in Calls, SyncApplies(c) PROVE Separate'
<1>1. UNCHANGED <<server, bytes, taken>> /\ Return(c) /\ vault' = calls[c].listing
      /\ cache' \in {cache, calls[c].listing}
    BY DEF SyncApplies
<1>2. \A own \in Owning : MarksOwned(own) /\ calls[c].listing # None =>
        VaultOwned(own, taken, calls[c].listing)
    BY CallIsOwned DEF CallOwned
<1>3. \A own \in Owning : MarksOwned(own) /\ cache # None =>
        VaultOwned(own, taken, cache)
    BY DEF MarksOwned
<1> QED BY <1>1, <1>2, <1>3, ReturnSeparate

LEMMA RequestFailsSeparate ==
    ASSUME TypeOK, Separate, NEW c \in Calls, RequestFails(c) PROVE Separate'
<1>1. UNCHANGED <<server, bytes, taken, vault, cache>> /\ Return(c)
    BY DEF RequestFails, disk
<1> QED BY <1>1, ReturnSeparate DEF MarksOwned

LEMMA SessionSeparate == ASSUME TypeOK, Separate, SessionStep PROVE Separate'
<1>1. UNCHANGED <<server, bytes, taken>> /\ vault' \in {None, cache, vault}
      /\ cache' \in {None, cache}
    BY DEF SessionStep, LoadsCached, Unlock, Lock, Logout, Crash, disk
<1>2. \A d \in Calls : calls'[d] = calls[d] \/ calls'[d] = Idle
    BY DEF SessionStep, LoadsCached, Unlock, Lock, Logout, Crash
<1>3. PICK own \in Owning : MarksOwned(own)
    BY DEF Separate
<1>4. ASSUME NEW d \in Calls PROVE CallOwned(own, taken, calls'[d])
    BY <1>2, <1>3, IdleOwned DEF MarksOwned
<1>5. MarksOwned(own)'
    BY <1>1, <1>3, <1>4 DEF MarksOwned, Served, VaultOwned, OwnedIn, CallOwned
<1>6. Idle.at = "idle"
    BY DEF Idle
<1>7. SlotsApart'
  <2>1. ASSUME NEW d \in Calls, calls'[d].at = "slot.sent" PROVE calls'[d] = calls[d]
      BY <1>2, <1>6, <2>1
  <2> QED BY <2>1 DEF Separate, SlotsApart
<1>8. UploadsStored'
  <2>1. ASSUME NEW d \in Calls, calls'[d].at = "upload.splice"
        PROVE  calls'[d] = calls[d]
      BY <1>2, <1>6, <2>1
  <2> QED BY <1>1, <2>1 DEF Separate, UploadsStored, Served
<1> QED BY <1>3, <1>5, <1>7, <1>8 DEF Separate

LEMMA OthersSeparate == ASSUME TypeOK, Separate, OthersAct PROVE Separate'
<1>1. PICK own \in Owning : MarksOwned(own)
    BY DEF Separate
\* Either way the file ids stay, and a new key is one not given out.
<1>2. PICK i \in ItemIds :
        \E new \in Item :
          /\ Served(i) /\ server[i] \in Item /\ Elsewhere(i, new)
          /\ {f.id : f \in new.files} = {f.id : f \in server[i].files}
          /\ \/ new.wrap = server[i].wrap /\ UNCHANGED taken
             \/ \E k \in OwnKeys : /\ k \notin taken /\ taken' = taken \cup {k}
                                   /\ new.wrap.key = k
  <2>1. ASSUME NEW i \in ItemIds, NEW text \in Texts, OtherClientEdits(i, text)
        PROVE  \E new \in Item :
                 /\ Served(i) /\ server[i] \in Item /\ Elsewhere(i, new)
                 /\ {f.id : f \in new.files} = {f.id : f \in server[i].files}
                 /\ new.wrap = server[i].wrap /\ UNCHANGED taken
    <3>1. /\ Served(i) /\ server[i] \in Item /\ Elsewhere(i, Edited(server[i], text))
          /\ UNCHANGED taken
        BY <2>1, OthersStep
    <3>2. /\ Edited(server[i], text) \in Item
          /\ Edited(server[i], text).wrap = server[i].wrap
          /\ Edited(server[i], text).files = server[i].files
        BY <3>1, EditedType
    <3> QED BY <3>1, <3>2
  <2>2. ASSUME NEW i \in ItemIds, NEW k \in OwnKeys, OtherClientWraps(i, k)
        PROVE  \E new \in Item :
                 /\ Served(i) /\ server[i] \in Item /\ Elsewhere(i, new)
                 /\ {f.id : f \in new.files} = {f.id : f \in server[i].files}
                 /\ k \notin taken /\ taken' = taken \cup {k} /\ new.wrap.key = k
    <3>1. /\ Served(i) /\ server[i] \in Item /\ Elsewhere(i, Wrapped(server[i], k))
          /\ k \notin taken /\ taken' = taken \cup {k}
        BY <2>2, OthersStep
    <3> DEFINE new == Wrapped(server[i], k)
    <3>2. /\ new \in Item
          /\ new.wrap = [under |-> Owned(server[i].org, Orgs), key |-> k]
          /\ {f.id : f \in new.files} = {f.id : f \in server[i].files}
        BY <3>1, WrappedType
    <3>3. Elsewhere(i, new)
        BY <3>1
    <3> HIDE DEF new
    <3>4. new.wrap.key = k
        BY <3>2
    <3> QED BY <3>1, <3>2, <3>3, <3>4
  <2> QED BY <2>1, <2>2 DEF OthersAct
<1>3. PICK new \in Item :
          /\ Served(i) /\ server[i] \in Item /\ Elsewhere(i, new)
          /\ {f.id : f \in new.files} = {f.id : f \in server[i].files}
          /\ \/ new.wrap = server[i].wrap /\ UNCHANGED taken
             \/ \E k \in OwnKeys : /\ k \notin taken /\ taken' = taken \cup {k}
                                   /\ new.wrap.key = k
    BY <1>2
<1>4. /\ server' = [server EXCEPT ![i] = new]
      /\ UNCHANGED <<bytes, vault, cache, calls>>
    BY <1>3 DEF Elsewhere, disk
<1>5. \A j \in ItemIds : server'[j] = IF j = i THEN new ELSE server[j]
    BY <1>4 DEF TypeOK
<1>6. SlotsApart'
    BY <1>4 DEF Separate, SlotsApart
<1>7. UploadsStored'
  <2>1. \A d \in Calls : calls[d].at = "upload.splice" => calls[d].item \in ItemIds
      BY CallType DEF Holds, Answered
  <2>2. ASSUME NEW d \in Calls, calls[d].at = "upload.splice",
               Served(calls[d].item)', NEW f \in server'[calls[d].item].files,
               f.id = calls[d].file.id
        PROVE  calls[d].file.id \in bytes
    <3>1. CASE calls[d].item = i
      <4>1. f.id \in {g.id : g \in server[i].files}
          BY <1>3, <1>5, <2>2, <3>1
      <4> QED BY <1>3, <2>2, <3>1, <4>1 DEF Separate, UploadsStored
    <3>2. CASE calls[d].item # i
      <4>1. server'[calls[d].item] = server[calls[d].item]
          BY <1>5, <2>1, <2>2, <3>2
      <4>2. f \in server[calls[d].item].files /\ Served(calls[d].item)
          BY <1>4, <2>2, <4>1 DEF Served
      <4> QED BY <2>2, <4>2 DEF Separate, UploadsStored
    <3> QED BY <3>1, <3>2
  <2> QED BY <1>4, <2>2 DEF UploadsStored
<1>8. PICK own2 \in Owning :
        /\ \A x \in taken : own2[x] = own[x]
        /\ new.wrap # server[i].wrap \/ ~UNCHANGED taken
             => new.wrap.key \in taken' /\ own2[new.wrap.key] = i
  <2>1. CASE new.wrap = server[i].wrap /\ UNCHANGED taken
      BY <1>1, <2>1
  <2>2. ASSUME NEW k \in OwnKeys, k \notin taken, taken' = taken \cup {k},
               new.wrap.key = k
        PROVE  \E own2 \in Owning :
                 /\ \A x \in taken : own2[x] = own[x]
                 /\ new.wrap.key \in taken' /\ own2[new.wrap.key] = i
    <3> DEFINE own2 == [own EXCEPT ![k] = i]
    <3>1. taken \subseteq FileIds \cup OwnKeys
        BY DEF TypeOK
    <3>2. own2 \in Owning /\ own2[k] = i /\ \A x \in taken : own2[x] = own[x]
        BY <2>2, <3>1 DEF Owning
    <3> QED BY <2>2, <3>2
  <2> QED BY <1>3, <2>1, <2>2
<1>9. Extends(own, own2, taken, taken')
    BY <1>3, <1>8 DEF Extends
<1>10. OwnedIn(own2, taken', i, new)
  <2>1. OwnedIn(own2, taken', i, server[i])
      BY <1>1, <1>3, <1>9, OwnedStays DEF MarksOwned
  <2>2. /\ \A f \in server[i].files : f.id \in taken' /\ own2[f.id] = i
        /\ server[i].wrap # None =>
             server[i].wrap.key \in taken' /\ own2[server[i].wrap.key] = i
      BY <2>1, MarksAre
  <2>3. ASSUME NEW f \in new.files PROVE f.id \in taken' /\ own2[f.id] = i
    <3>1. f.id \in {g.id : g \in server[i].files}
        BY <1>3
    <3> QED BY <2>2, <3>1
  <2>4. new.wrap # None => new.wrap.key \in taken' /\ own2[new.wrap.key] = i
      BY <1>3, <1>8, <2>2
  <2> QED BY <2>3, <2>4, MarksOf
<1>11. ASSUME NEW d \in Calls PROVE CallOwned(own2, taken', calls[d])
  <2>1. CallOwned(own, taken, calls[d])
      BY <1>1, CallIsOwned
  <2>2. calls[d].at = "slot.sent" => calls[d].file.id \notin taken'
    <3>1. calls[d].at = "slot.sent" => calls[d].file.id \in FileIds
        BY CallType, Sentinels DEF Holds, File
    <3>2. taken' \subseteq taken \cup OwnKeys
        BY <1>3
    <3> QED BY <2>1, <3>1, <3>2, CiphersAssumption DEF CallOwned
  <2> QED BY <1>9, <2>1, <2>2, CallStays
<1>12. ASSUME NEW j \in ItemIds, Served(j)' PROVE OwnedIn(own2, taken', j, server'[j])
  <2>1. CASE j = i
      BY <1>5, <1>10, <2>1
  <2>2. CASE j # i
    <3>1. OwnedIn(own, taken, j, server[j]) /\ server'[j] = server[j]
        BY <1>1, <1>5, <1>12, <2>2 DEF Served, MarksOwned
    <3> QED BY <1>9, <3>1, OwnedStays
  <2> QED BY <2>1, <2>2
<1>13. (vault # None => VaultOwned(own2, taken', vault))
       /\ (cache # None => VaultOwned(own2, taken', cache))
    BY <1>1, <1>9, VaultStays DEF MarksOwned
<1>14. MarksOwned(own2)'
    BY <1>4, <1>11, <1>12, <1>13 DEF MarksOwned, VaultOwned, OwnedIn, CallOwned
<1> QED BY <1>6, <1>7, <1>8, <1>14 DEF Separate

\* At the start every mark is its item's, which is the only one to have it.
LEMMA InitSeparate == Init => Separate
<1> SUFFICES ASSUME Init PROVE Separate
    OBVIOUS
<1>1. /\ server \in Vaults /\ vault = server /\ cache = server
      /\ taken = Taken(server)
      /\ \A i, j \in Ids(server) : i # j => Marks(server[i]) \cap Marks(server[j]) = {}
    BY StartsAssumption DEF Init
<1>2. \A c \in Calls : calls[c] = Idle
    BY DEF Init
<1> DEFINE own == [x \in FileIds \cup OwnKeys |->
                     IF \E i \in Ids(server) : x \in Marks(server[i])
                     THEN CHOOSE i \in Ids(server) : x \in Marks(server[i])
                     ELSE None]
<1>3. Ids(server) \subseteq ItemIds /\ \A i \in ItemIds : server[i] # None => i \in Ids(server)
    BY <1>1 DEF Ids, Vaults
<1>4. own \in Owning
    BY <1>3 DEF Owning
<1>5. ASSUME NEW i \in ItemIds, server[i] # None PROVE OwnedIn(own, taken, i, server[i])
  <2>1. i \in Ids(server) /\ server[i] \in Item
      BY <1>1, <1>3, <1>5 DEF Vaults
  <2>2. ASSUME NEW x \in Marks(server[i]) PROVE x \in taken /\ own[x] = i
    <3>1. x \in FileIds \cup OwnKeys
        BY <2>1 DEF Marks, Item, File, Wrap
    <3>2. x \in taken
        BY <1>1, <2>1 DEF Taken
    <3>3. \A j \in Ids(server) : x \in Marks(server[j]) => j = i
        BY <1>1, <2>1
    <3> QED BY <2>1, <3>1, <3>2, <3>3
  <2> QED BY <2>2 DEF OwnedIn
<1>6. MarksOwned(own)
  <2> HIDE DEF own
  <2>1. \A c \in Calls : CallOwned(own, taken, calls[c])
      BY <1>2, IdleOwned
  <2> QED BY <1>1, <1>5, <2>1 DEF MarksOwned, VaultOwned, Served
<1>7. SlotsApart /\ UploadsStored
    BY <1>2 DEF SlotsApart, UploadsStored, Idle
<1> QED BY <1>4, <1>6, <1>7 DEF Separate

LEMMA NextSeparate == TypeOK /\ Separate /\ [Next]_vars => Separate'
<1> SUFFICES ASSUME TypeOK, Separate, [Next]_vars PROVE Separate'
    OBVIOUS
<1>1. CASE UNCHANGED vars
  <2>1. PICK own \in Owning : MarksOwned(own)
      BY DEF Separate
  <2>2. MarksOwned(own)'
      BY <1>1, <2>1 DEF vars, disk, MarksOwned, VaultOwned, OwnedIn, CallOwned, Served
  <2>3. SlotsApart' /\ UploadsStored'
      BY <1>1 DEF vars, Separate, SlotsApart, UploadsStored, Served
  <2> QED BY <2>1, <2>2, <2>3 DEF Separate
<1> QED BY <1>1, Steps1, StartSeparate, ServerSeparate, SpliceSeparate,
       CreateSplicesSeparate, ShareLogsSeparate, SyncAppliesSeparate,
       RequestFailsSeparate, SessionSeparate, OthersSeparate

LEMMA AlwaysSeparate == Spec => [](TypeOK /\ Separate)
<1>1. Init => TypeOK /\ Separate
    BY InitType, InitSeparate
<1>2. TypeOK /\ Separate /\ [Next]_vars => TypeOK' /\ Separate'
    BY NextType, NextSeparate
<1> QED BY <1>1, <1>2, PTL DEF Spec

\* No copy, update or share gives an item the key of another.
THEOREM CopiesStaySeparate == Spec => []CopiesAreSeparate
<1>1. Separate => CopiesAreSeparate
  <2> SUFFICES ASSUME Separate, NEW i \in ItemIds, NEW j \in ItemIds,
                      i # j, Served(i), Served(j),
                      server[i].wrap # None, server[j].wrap # None
               PROVE  server[i].wrap.key # server[j].wrap.key
      BY DEF CopiesAreSeparate
  <2>1. PICK own \in Owning : MarksOwned(own)
      BY DEF Separate
  <2>2. OwnedIn(own, taken, i, server[i]) /\ OwnedIn(own, taken, j, server[j])
      BY <2>1 DEF MarksOwned
  <2> QED BY <2>2, MarksAre
<1> QED BY <1>1, AlwaysSeparate, PTL

\* Once the second request of an upload is answered the bytes are there for as
\* long as the item and its attachment are, whatever else is deleted meanwhile.
THEOREM UploadsStayStored == Spec => []UploadedIsStored
<1>1. Separate => UploadedIsStored
    BY DEF Separate, UploadsStored, UploadedIsStored
<1> QED BY <1>1, AlwaysSeparate, PTL
-----------------------------------------------------------------------------
(* Snapshots: what they hold and what completed says.                      *)

\* An item that has left for an organisation, or is gone.
Left(item) == item # None /\ (item # Gone => item.org \in Held)

BlobOpens(item) == \A p \in Parts : Opens(item.fields[p], CipherKey(item, Session))
RowTells(r, items) == BlobOpens(r.blob) /\ (r.done => Left(items[r.item]))

Logged == {"share.sent", "share.mark", "share.splice"}

\* A share's row is its own, and it marks it on the strength of an answer.
CallTells(call, rows, items) ==
    /\ call.at = "share.save" => BlobOpens(call.read)
    /\ call.at = "share.mark" => Left(items[call.item])
    /\ \A r \in rows : r.op = call.op => call.at \in Logged /\ r.item = call.item

NumbersAreOwn ==
    /\ \A c \in Calls : calls[c].op <= begun
    /\ \A r \in snaps : r.op <= begun
    /\ \A c, d \in Calls :
         c # d /\ calls[c].op = calls[d].op => calls[c].op = 0

Tells ==
    /\ \A r \in snaps : RowTells(r, server)
    /\ \A c \in Calls : CallTells(calls[c], snaps, server)
    /\ NumbersAreOwn

LeftStays == \A i \in ItemIds : Left(server[i]) => Left(server'[i])

\* A row is one that was there, marked perhaps, or the invocation's own.
RowsFit(c) ==
    \A r \in snaps' :
        \/ r.op = calls[c].op /\ RowTells(r, server')
        \/ \E s \in snaps : /\ r.op = s.op /\ r.item = s.item /\ r.blob = s.blob
                            /\ r.done => s.done \/ Left(server'[r.item])

LEMMA TellsOn ==
    ASSUME TypeOK, TypeOK', Tells, NEW c \in Calls, NEW next,
           calls' = [calls EXCEPT ![c] = next], begun <= begun', next.op <= begun',
           next.op \in {0, calls[c].op, begun + 1}, CallTells(next, snaps', server'),
           LeftStays, RowsFit(c)
    PROVE  Tells'
<1>1. \A d \in Calls : calls'[d] = IF d = c THEN next ELSE calls[d]
    BY DEF TypeOK
<1>2. begun \in Nat /\ begun' \in Nat /\ \A d \in Calls : calls[d].op \in Nat
    BY CallType, Sentinels DEF TypeOK
<1>3. /\ \A r \in snaps : r.op \in Nat /\ r.op # 0 /\ r.item \in ItemIds
      /\ \A r \in snaps' : r.op \in Nat /\ r.op # 0 /\ r.item \in ItemIds
    BY Sentinels DEF TypeOK, Row
<1>4. \A r \in snaps' : RowTells(r, server')
    BY <1>3 DEF RowsFit, LeftStays, Tells, RowTells
<1>5. ASSUME NEW d \in Calls, d # c PROVE CallTells(calls'[d], snaps', server')
  <2>1. calls'[d] = calls[d] /\ CallTells(calls[d], snaps, server)
      BY <1>1, <1>5 DEF Tells
  <2>2. calls[d].at = "share.mark" => Left(server'[calls[d].item])
      BY <2>1, CallType DEF CallTells, LeftStays, Holds
  <2>3. ASSUME NEW r \in snaps', r.op = calls[d].op
        PROVE  calls[d].at \in Logged /\ r.item = calls[d].item
    <3>1. r.op # calls[c].op
        BY <1>3, <1>5, <2>3 DEF Tells, NumbersAreOwn
    <3> QED BY <2>1, <2>3, <3>1 DEF RowsFit, CallTells
  <2> QED BY <2>1, <2>2, <2>3 DEF CallTells
<1>6. \A d \in Calls : CallTells(calls'[d], snaps', server')
    BY <1>1, <1>5
<1>7. NumbersAreOwn'
  <2>1. \A d \in Calls : calls'[d].op <= begun'
      BY <1>1, <1>2 DEF Tells, NumbersAreOwn
  <2>2. \A r \in snaps' : r.op <= begun'
      BY <1>2, <1>3 DEF Tells, NumbersAreOwn, RowsFit
  <2>3. ASSUME NEW d \in Calls, d # c, next.op = calls[d].op PROVE next.op = 0
      BY <1>2, <2>3 DEF Tells, NumbersAreOwn
  <2>4. ASSUME NEW a \in Calls, NEW b \in Calls, a # b, calls'[a].op = calls'[b].op
        PROVE  calls'[a].op = 0
    <3>1. CASE a = c
        BY <1>1, <2>3, <2>4, <3>1
    <3>2. CASE b = c
        BY <1>1, <2>3, <2>4, <3>2
    <3>3. CASE a # c /\ b # c
        BY <1>1, <2>4, <3>3 DEF Tells, NumbersAreOwn
    <3> QED BY <3>1, <3>2, <3>3
  <2> QED BY <2>1, <2>2, <2>4 DEF NumbersAreOwn
<1> QED BY <1>4, <1>6, <1>7 DEF Tells

\* Rows that stay as they are.
LEMMA SameRows == ASSUME snaps' = snaps, NEW c \in Calls PROVE RowsFit(c)
BY DEF RowsFit

LEMMA SameServer == ASSUME server' = server PROVE LeftStays
BY DEF LeftStays

\* A return leaves no row behind to mark.
LEMMA ReturnTells ==
    ASSUME TypeOK, TypeOK', Tells, NEW c \in Calls, Return(c),
           UNCHANGED <<server, snaps, begun>>
    PROVE  Tells'
<1>1. PICK next : next = Idle
    OBVIOUS
<1>2. next.op = 0 /\ next.at = "idle"
    BY <1>1 DEF Idle
<1>3. CallTells(next, snaps', server')
    BY <1>2, Sentinels DEF CallTells, TypeOK, Row
<1>4. begun \in Nat
    BY Sentinels DEF TypeOK
<1>5. /\ calls' = [calls EXCEPT ![c] = next] /\ begun <= begun' /\ next.op <= begun'
      /\ next.op \in {0, calls[c].op, begun + 1}
    BY <1>1, <1>2, <1>4 DEF Return, Goto
<1>6. LeftStays /\ RowsFit(c)
    BY SameRows, SameServer
<1> QED BY <1>3, <1>5, <1>6, TellsOn

LEMMA StartTells ==
    ASSUME TypeOK, TypeOK', Tells, NEW c \in Calls, StartStep(c) PROVE Tells'
<1>1. PICK next : Begins(c, next) /\ StartFits(next)
    BY StartStarted DEF Started
<1>2. /\ calls' = [calls EXCEPT ![c] = next] /\ next.op = begun + 1
      /\ begun' = begun + 1 /\ UNCHANGED <<server, snaps>>
    BY <1>1 DEF Begins
<1>3. begun \in Nat /\ \A r \in snaps : r.op \in Nat /\ r.op <= begun
    BY Sentinels DEF TypeOK, Row, Tells, NumbersAreOwn
<1>4. next.at # "share.mark"
      /\ (next.at = "share.save" => BlobOpens(next.read))
    BY <1>1 DEF StartFits, ReadFits, BlobOpens, Sent
<1>5. CallTells(next, snaps', server')
    BY <1>2, <1>3, <1>4 DEF CallTells
<1>6. /\ begun <= begun' /\ next.op <= begun'
      /\ next.op \in {0, calls[c].op, begun + 1}
    BY <1>2, <1>3
<1>7. LeftStays /\ RowsFit(c)
    BY <1>2, SameRows, SameServer
<1> QED BY <1>2, <1>5, <1>6, <1>7, TellsOn

\* What has left stays left: no request takes an item out of an organisation.
LEMMA ServerLeaves ==
    ASSUME TypeOK, KeysFit, NEW c \in Calls, ServerStep(c) PROVE LeftStays
<1> SUFFICES ASSUME NEW j \in ItemIds, Left(server[j]) PROVE Left(server'[j])
    BY DEF LeftStays
<1>1. ASSUME NEW i \in ItemIds, NEW new, server' = [server EXCEPT ![i] = new]
      PROVE  server'[j] = IF j = i THEN new ELSE server[j]
    BY <1>1 DEF TypeOK
<1>2. ASSUME NEW i \in ItemIds, NEW new, NEW next, Creates(c, i, new, next)
      PROVE  Left(server'[j])
    BY <1>1, <1>2 DEF Creates, Left
<1>3. ASSUME NEW i \in ItemIds, NEW new, NEW next, Rewrites(c, i, new, next)
      PROVE  Left(server'[j])
  <2>1. /\ Served(i) /\ server[i].org \in {None, new.org}
        /\ server' = [server EXCEPT ![i] = new]
      BY <1>3 DEF Rewrites, Addressed
  <2>2. None \notin Held /\ new \in Item /\ new \notin {None, Gone}
      BY <1>3, Sentinels DEF Rewrites, Keys
  <2> QED BY <1>1, <2>1, <2>2 DEF Left, Served
<1>4. ASSUME NEW i \in ItemIds, NEW new, NEW next, Alters(c, i, new, next)
      PROVE  Left(server'[j])
  <2>1. /\ Served(i) /\ server[i].org = new.org
        /\ server' = [server EXCEPT ![i] = new]
        /\ new \notin {None, Gone}
      BY <1>4, Sentinels DEF Alters, Addressed
  <2> QED BY <1>1, <2>1 DEF Left, Served
<1>5. ASSUME NEW i \in ItemIds, NEW next, Deletes(c, i, next)
      PROVE  Left(server'[j])
  <2>1. server' = [server EXCEPT ![i] = Gone]
      BY <1>5 DEF Deletes
  <2> QED BY <1>1, <2>1, Sentinels DEF Left
<1>6. ASSUME NEW i \in ItemIds, NEW next, Stores(c, i, next)
      PROVE  Left(server'[j])
    BY <1>6 DEF Stores
<1>7. ASSUME NEW next, Lists(c, next) PROVE Left(server'[j])
    BY <1>7 DEF Lists
<1> QED BY <1>2, <1>3, <1>4, <1>5, <1>6, <1>7, ServerStepIs DEF ServesOne

\* An answered share has left.
LEMMA ServerTells ==
    ASSUME TypeOK, TypeOK', KeysFit, Tells, NEW c \in Calls, ServerStep(c)
    PROVE  Tells'
<1>1. LeftStays
    BY ServerLeaves
<1> DEFINE MovesOn(next) ==
             /\ calls' = [calls EXCEPT ![c] = next]
             /\ next.op = calls[c].op /\ snaps' = snaps /\ begun' = begun
             /\ next.at # "share.save"
             /\ next.at = "share.mark" => Left(server'[next.item])
             /\ \/ calls[c].at \notin Logged
                \/ next.at \in Logged /\ next.item = calls[c].item
<1>2. ASSUME NEW next, MovesOn(next) PROVE Tells'
  <2>1. CallTells(next, snaps', server')
      BY <1>2 DEF CallTells, Tells
  <2>2. begun \in Nat /\ next.op <= begun'
      BY <1>2, Sentinels DEF TypeOK, Tells, NumbersAreOwn
  <2>3. begun <= begun' /\ next.op \in {0, calls[c].op, begun + 1} /\ RowsFit(c)
      BY <1>2, <2>2, SameRows
  <2> QED BY <1>1, <1>2, <2>1, <2>2, <2>3, TellsOn
<1>3. ASSUME NEW i \in ItemIds, NEW new, NEW next, Creates(c, i, new, next)
      PROVE  Tells'
  <2>1. /\ calls' = [calls EXCEPT ![c] = next] /\ next.op = calls[c].op
        /\ snaps' = snaps /\ begun' = begun /\ next.at = "create.splice"
        /\ calls[c].at = "create.sent"
      BY <1>3 DEF Creates, Advances
  <2>2. MovesOn(next)
      BY <2>1 DEF Logged
  <2> HIDE DEF MovesOn
  <2> QED BY <1>2, <2>2
<1>4. ASSUME NEW i \in ItemIds, NEW new, NEW next, Rewrites(c, i, new, next)
      PROVE  Tells'
  <2>1. CASE calls[c].at \in {"update.sent", "login.sent"}
    <3>1. /\ calls' = [calls EXCEPT ![c] = next] /\ next.op = calls[c].op
          /\ snaps' = snaps /\ begun' = begun /\ next.at = "update.splice"
        BY <1>4, <2>1 DEF Rewrites, Advances
    <3>2. MovesOn(next)
        BY <2>1, <3>1 DEF Logged
    <3> HIDE DEF MovesOn
    <3> QED BY <1>2, <3>2
  <2>2. CASE calls[c].at = "share.sent"
    <3>1. /\ next.at = "share.mark" /\ next.item = calls[c].item /\ next.item = i
          /\ server' = [server EXCEPT ![i] = new] /\ new.org = calls[c].body.org
        BY <1>4, <2>2 DEF Rewrites, Advances, Addressed
    <3>2. new.org \in Held
        BY <2>2, <3>1 DEF KeysFit, CallsOpen, CallOpens, Sharing
    <3>3. server'[i] = new /\ new # None
        BY <1>4, <3>1, Sentinels DEF TypeOK, Rewrites
    <3>4. Left(server'[next.item])
        BY <3>1, <3>2, <3>3 DEF Left
    <3>5. MovesOn(next)
        BY <1>4, <2>2, <3>1, <3>4 DEF Rewrites, Advances, Logged
    <3> HIDE DEF MovesOn
    <3> QED BY <1>2, <3>5
  <2> QED BY <1>4, <2>1, <2>2 DEF Rewrites
<1>5. ASSUME NEW i \in ItemIds, NEW new, NEW next, Alters(c, i, new, next)
      PROVE  Tells'
  <2>1. /\ calls' = [calls EXCEPT ![c] = next] /\ next.op = calls[c].op
        /\ snaps' = snaps /\ begun' = begun
        /\ next.at \notin {"share.save", "share.mark"} /\ calls[c].at \notin Logged
      BY <1>5 DEF Alters, Advances, Logged
  <2>2. MovesOn(next)
      BY <2>1
  <2> HIDE DEF MovesOn
  <2> QED BY <1>2, <2>2
<1>6. ASSUME NEW i \in ItemIds, NEW next, Deletes(c, i, next) PROVE Tells'
  <2>1. /\ calls' = [calls EXCEPT ![c] = next] /\ next.op = calls[c].op
        /\ snaps' = snaps /\ begun' = begun
        /\ next.at \notin {"share.save", "share.mark"} /\ calls[c].at \notin Logged
      BY <1>6 DEF Deletes, Advances, Logged
  <2>2. MovesOn(next)
      BY <2>1
  <2> HIDE DEF MovesOn
  <2> QED BY <1>2, <2>2
<1>7. ASSUME NEW i \in ItemIds, NEW next, Stores(c, i, next) PROVE Tells'
  <2>1. /\ calls' = [calls EXCEPT ![c] = next] /\ next.op = calls[c].op
        /\ snaps' = snaps /\ begun' = begun
        /\ next.at \notin {"share.save", "share.mark"} /\ calls[c].at \notin Logged
      BY <1>7 DEF Stores, Advances, Logged
  <2>2. MovesOn(next)
      BY <2>1
  <2> HIDE DEF MovesOn
  <2> QED BY <1>2, <2>2
<1>8. ASSUME NEW next, Lists(c, next) PROVE Tells'
  <2>1. /\ calls' = [calls EXCEPT ![c] = next] /\ next.op = calls[c].op
        /\ snaps' = snaps /\ begun' = begun
        /\ next.at \notin {"share.save", "share.mark"} /\ calls[c].at \notin Logged
      BY <1>8 DEF Lists, Advances, Logged
  <2>2. MovesOn(next)
      BY <2>1
  <2> HIDE DEF MovesOn
  <2> QED BY <1>2, <2>2
<1> QED BY <1>3, <1>4, <1>5, <1>6, <1>7, <1>8, ServerStepIs DEF ServesOne

\* A snapshot is of what the share's body was made of, under keys that opened it,
\* and only an answered share marks one.
LEMMA ShareLogsTells ==
    ASSUME TypeOK, TypeOK', Tells, NEW c \in Calls, ShareSaves(c) \/ ShareMarks(c)
    PROVE  Tells'
<1> DEFINE step(to) == [calls[c] EXCEPT !.at = to]
<1>0. begun' = begun /\ server' = server /\ calls[c].op <= begun /\ begun \in Nat
    BY Sentinels DEF ShareSaves, ShareMarks, count, Tells, NumbersAreOwn, TypeOK
<1>1. ASSUME NEW to \in {"share.sent", "share.splice"}
      PROVE  /\ step(to).at = to /\ step(to).op = calls[c].op
             /\ step(to).item = calls[c].item
    BY CallType, Moved DEF Steps, Sent
<1> HIDE DEF step
<1>9. ASSUME NEW to \in {"share.sent", "share.splice"}
      PROVE  /\ begun <= begun' /\ step(to).op <= begun' /\ LeftStays
             /\ step(to).op \in {0, calls[c].op, begun + 1}
    BY <1>0, <1>1, SameServer
<1>2. CASE ShareSaves(c)
  <2>1. /\ calls[c].at = "share.save" /\ calls' = [calls EXCEPT ![c] = step("share.sent")]
        /\ snaps' \in {snaps, snaps \cup {NewRow(calls[c])}}
      BY <1>2 DEF ShareSaves, Goto, step
  <2>2. RowTells(NewRow(calls[c]), server')
      BY <2>1 DEF Tells, CallTells, RowTells, NewRow
  <2>3. NewRow(calls[c]).op = calls[c].op /\ NewRow(calls[c]).item = calls[c].item
      BY DEF NewRow
  <2>4. RowsFit(c)
      BY <2>1, <2>2, <2>3 DEF RowsFit
  <2>5. \A r \in snaps : r.op # calls[c].op
      BY <2>1 DEF Tells, CallTells, Logged
  <2>6. CallTells(step("share.sent"), snaps', server')
      BY <1>1, <2>1, <2>3, <2>5 DEF CallTells, Logged
  <2> QED BY <1>0, <1>9, <2>1, <2>4, <2>6, TellsOn
<1>3. CASE ShareMarks(c)
  <2>1. /\ calls[c].at = "share.mark" /\ calls' = [calls EXCEPT ![c] = step("share.splice")]
        /\ snaps' \in {snaps, Marked(snaps, calls[c])}
      BY <1>3 DEF ShareMarks, Goto, step
  <2>2. Left(server[calls[c].item])
      BY <2>1 DEF Tells, CallTells
  <2>3. ASSUME NEW r \in snaps'
        PROVE  \E s \in snaps : /\ r.op = s.op /\ r.item = s.item /\ r.blob = s.blob
                                /\ r.done => s.done \/ s.op = calls[c].op
    <3>1. CASE snaps' = snaps
        BY <3>1
    <3>2. CASE snaps' = Marked(snaps, calls[c])
      <4>1. PICK s \in snaps : r = [s EXCEPT !.done = s.done \/ s.op = calls[c].op]
          BY <3>2 DEF Marked
      <4>2. s \in Row
          BY DEF TypeOK
      <4>3. r.op = s.op /\ r.item = s.item /\ r.blob = s.blob
            /\ r.done = (s.done \/ s.op = calls[c].op)
          BY <4>1, <4>2 DEF Row
      <4> QED BY <4>3
    <3> QED BY <2>1, <3>1, <3>2
  <2>4. RowsFit(c)
      BY <1>0, <2>2, <2>3 DEF RowsFit, Tells, CallTells
  <2>5. \A r \in snaps' : r.op = calls[c].op => r.item = calls[c].item
      BY <2>3 DEF Tells, CallTells
  <2>6. CallTells(step("share.splice"), snaps', server')
      BY <1>1, <2>5 DEF CallTells, Logged
  <2> QED BY <1>0, <1>9, <2>1, <2>4, <2>6, TellsOn
<1> QED BY <1>2, <1>3

\* A logout may empty the snapshots; a crash takes the invocations.
LEMMA SessionTells ==
    ASSUME TypeOK, TypeOK', Tells, SessionStep PROVE Tells'
<1>1. UNCHANGED <<server, begun>> /\ snaps' \in {snaps, {}}
    BY DEF SessionStep, LoadsCached, Unlock, Lock, Logout, Crash, count, disk
<1>2. \A c \in Calls : calls'[c] \in {calls[c], Idle}
    BY DEF SessionStep, LoadsCached, Unlock, Lock, Logout, Crash
<1>3. Idle.op = 0 /\ Idle.at = "idle"
    BY DEF Idle
<1>4. \A r \in snaps' : r \in snaps /\ r.op # 0 /\ RowTells(r, server')
    BY <1>1, Sentinels DEF Tells, RowTells, TypeOK, Row
<1>5. ASSUME NEW c \in Calls PROVE CallTells(calls'[c], snaps', server')
    BY <1>1, <1>2, <1>3, <1>4 DEF Tells, CallTells
<1>6. begun \in Nat
    BY Sentinels DEF TypeOK
<1>7. NumbersAreOwn'
  <2>1. \A c \in Calls : calls'[c].op <= begun'
      BY <1>1, <1>2, <1>3, <1>6 DEF Tells, NumbersAreOwn
  <2>2. \A r \in snaps' : r.op <= begun'
      BY <1>1, <1>4 DEF Tells, NumbersAreOwn
  <2>3. ASSUME NEW c \in Calls, NEW d \in Calls, c # d, calls'[c].op = calls'[d].op
        PROVE  calls'[c].op = 0
      BY <1>2, <1>3, <2>3 DEF Tells, NumbersAreOwn
  <2> QED BY <2>1, <2>2, <2>3 DEF NumbersAreOwn
<1> QED BY <1>4, <1>5, <1>7 DEF Tells

\* Other clients leave an item where it is.
LEMMA OthersTells ==
    ASSUME TypeOK, TypeOK', Tells, OthersAct PROVE Tells'
<1>1. PICK i \in ItemIds, new \in Item :
        Served(i) /\ new.org = server[i].org /\ Elsewhere(i, new)
  <2>1. ASSUME NEW i \in ItemIds, NEW text \in Texts, OtherClientEdits(i, text)
        PROVE  \E new \in Item : Served(i) /\ new.org = server[i].org /\ Elsewhere(i, new)
    <3>1. Served(i) /\ server[i] \in Item /\ Elsewhere(i, Edited(server[i], text))
        BY <2>1, OthersStep
    <3> QED BY <3>1, EditedType
  <2>2. ASSUME NEW i \in ItemIds, NEW own \in OwnKeys, OtherClientWraps(i, own)
        PROVE  \E new \in Item : Served(i) /\ new.org = server[i].org /\ Elsewhere(i, new)
    <3>1. /\ Served(i) /\ server[i] \in Item /\ server[i].wrap = None
          /\ Elsewhere(i, Wrapped(server[i], own))
        BY <2>2, OthersStep
    <3> QED BY <3>1, WrappedType
  <2> QED BY <2>1, <2>2 DEF OthersAct
<1>2. server' = [server EXCEPT ![i] = new] /\ UNCHANGED <<snaps, calls, begun>>
    BY <1>1 DEF Elsewhere, disk
<1>3. \A j \in ItemIds : server'[j] = IF j = i THEN new ELSE server[j]
    BY <1>2 DEF TypeOK
<1>4. LeftStays
    BY <1>1, <1>3, Sentinels DEF LeftStays, Left, Served
<1>5. \A r \in snaps' : RowTells(r, server')
    BY <1>2, <1>4 DEF Tells, RowTells, LeftStays, TypeOK, Row
<1>6. ASSUME NEW c \in Calls PROVE CallTells(calls'[c], snaps', server')
  <2>1. calls[c].at = "share.mark" => calls[c].item \in ItemIds
      BY CallType DEF Holds
  <2> QED BY <1>2, <1>4, <2>1 DEF Tells, CallTells, LeftStays
<1>7. NumbersAreOwn'
    BY <1>2 DEF Tells, NumbersAreOwn
<1> QED BY <1>5, <1>6, <1>7 DEF Tells

LEMMA NextTells == TypeOK /\ TypeOK' /\ KeysFit /\ Tells /\ [Next]_vars => Tells'
<1> SUFFICES ASSUME TypeOK, TypeOK', KeysFit, Tells, [Next]_vars PROVE Tells'
    OBVIOUS
<1>1. ASSUME NEW c \in Calls,
             SpliceStep(c) \/ CreateSplices(c) \/ SyncApplies(c) \/ RequestFails(c)
      PROVE  Tells'
  <2>1. Return(c) /\ UNCHANGED <<server, snaps, begun>>
      BY <1>1 DEF SpliceStep, UpdateSplices, ShareSplices, MoveSplices, FlagSplices,
         DeleteSplices, UploadSplices, UnfileSplices, Splice, CreateSplices,
         SyncApplies, RequestFails, disk, count
  <2> QED BY <2>1, ReturnTells
<1>2. CASE UNCHANGED vars
  <2>1. UNCHANGED <<server, snaps, calls, begun>>
      BY <1>2 DEF vars, disk, count
  <2> QED BY <2>1 DEF Tells, RowTells, CallTells, NumbersAreOwn
<1> QED BY <1>1, <1>2, Steps1, StartTells, ServerTells, ShareLogsTells,
       SessionTells, OthersTells

\* A snapshot holds all it takes to make its item again, and says completed only of
\* an item that has left or is gone, whatever shares, deletions, failed writes and
\* crashes overlap.
THEOREM SnapshotsAreTrue == Spec => []SnapshotsTellTheTruth
<1>1. Init => Tells
  <2> SUFFICES ASSUME Init PROVE Tells
      OBVIOUS
  <2>1. snaps = {} /\ begun = 0 /\ \A c \in Calls : calls[c].op = 0 /\ calls[c].at = "idle"
      BY DEF Init, Idle
  <2> QED BY <2>1 DEF Tells, CallTells, NumbersAreOwn
<1>2. Tells => SnapshotsTellTheTruth
    BY DEF Tells, RowTells, BlobOpens, Left, Served, SnapshotsTellTheTruth
<1>3. TypeOK /\ TypeOK' /\ KeysFit /\ Tells /\ [Next]_vars => Tells'
    BY NextTells
<1> QED BY <1>1, <1>2, <1>3, KeysAlwaysFit, PTL DEF Spec
=============================================================================
