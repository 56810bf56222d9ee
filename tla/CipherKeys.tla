----------------------------- MODULE CipherKeys -----------------------------
(***************************************************************************)
(* Which key every part of an item is under, and what becomes of it when   *)
(* the item is created, updated, copied or shared: crypto.rs and           *)
(* services/cipher.rs as operators.                                        *)
(*                                                                         *)
(* A ciphertext is the key it opens under and the text in it.  An          *)
(* organisation's id stands for its key.  A ring is the keys a session     *)
(* has: the user's, and one per organisation it was given.                 *)
(***************************************************************************)
EXTENDS Naturals, Sequences

CONSTANTS
    Texts,       \* what a field may hold
    Empty,       \* the empty one
    Orgs,
    Held,        \* the organisations whose keys the session unwrapped
    UserKey,
    VaultKey,    \* the fresh key of an export
    OwnKeys,     \* keys of items that carry their own
    Colls, OrgOf,   \* collections, and whose each is
    FileIds,
    HistoryCap,  \* 5 in build_update_cipher_body
    None

Keys == {UserKey, VaultKey} \cup Orgs \cup OwnKeys
Owners == Orgs \cup {UserKey}

\* "secret" stands for what is revealed on demand outside a login (a card's
\* number, a private key, a hidden field), "text" for what is always shown.
Parts == {"name", "text", "secret", "password", "totp"}
Kinds == {"login", "note", "card", "identity", "sshKey"}

Sealed == [under : Keys, text : Texts]
\* A name is there in every item, if only as a ciphertext nobody can open.
Fields == {f \in [Parts -> Sealed \cup {None}] : f["name"] # None}
Wrap == [under : Keys, key : OwnKeys]
\* An attachment's name and file key are under its cover; a legacy one has no
\* file key and its bytes are under the cover themselves.
File == [id : FileIds, cover : Keys]

\* whole: the sub-object its kind calls for is there.  The folder and the
\* favourite mark are Folders' and nobody's.
Item ==
    [kind : Kinds, org : Orgs \cup {None}, coll : Colls \cup {None},
     wrap : Wrap \cup {None}, fields : Fields,
     past : Seq(Sealed), files : SUBSET File,
     reprompt : BOOLEAN, whole : BOOLEAN, trashed : BOOLEAN]

\* What a POST or a PUT carries of an item.
Body ==
    [kind : Kinds, org : Orgs \cup {None}, coll : Colls \cup {None},
     wrap : Wrap \cup {None}, fields : Fields,
     past : Seq(Sealed), reprompt : BOOLEAN]

\* What the editor sends: an item in clear text, without files or history,
\* with a name.
Input ==
    [kind : Kinds, org : Orgs \cup {None}, coll : Colls \cup {None},
     fields : {f \in [Parts -> Texts \cup {None}] : f["name"] # None},
     reprompt : BOOLEAN, whole : BOOLEAN]

ASSUME KeyAssumption ==
    /\ UserKey \notin Orgs \cup OwnKeys
    /\ VaultKey \notin Orgs \cup OwnKeys \cup {UserKey}
    /\ Orgs \cap OwnKeys = {}
    /\ Held \subseteq Orgs
    /\ OrgOf \in [Colls -> Orgs]
    /\ HistoryCap \in Nat

ASSUME NoneAssumption ==
    /\ None \notin Keys \cup Texts \cup Colls
    /\ None \notin Sealed /\ None \notin Wrap
    /\ None \notin Item /\ None \notin Body /\ None \notin Input

Session == [user |-> UserKey, orgs |-> [o \in Held |-> o]]
Everyones == [user |-> UserKey, orgs |-> [o \in Orgs |-> o]]

-----------------------------------------------------------------------------
(* crypto.rs.                                                              *)

\* encrypt_string; encrypt_opt leaves out what is absent or empty.
Seal(text, key) == [under |-> key, text |-> text]
SealOpt(text, key) == IF text \in {None, Empty} THEN None ELSE Seal(text, key)

\* The MAC tells every other key; a failure is None, like an absent field.
Decrypt(sealed, key) ==
    IF sealed # None /\ sealed.under = key THEN sealed.text ELSE None

Present(text) == text \notin {None, Empty}

DecryptCipherKey(owner, wrap) == IF wrap.under = owner THEN wrap.key ELSE None
EncryptCipherKey(own, owner) == [under |-> owner, key |-> own]

Opens(sealed, key) == sealed = None \/ sealed.under = key
Reencrypt(sealed, to) == IF sealed = None THEN None ELSE Seal(sealed.text, to)

-----------------------------------------------------------------------------
(* services/cipher.rs: the key of an item.                                 *)

\* A missing organisation key degrades to the user key,
OwningKey(item, ring) ==
    IF item.org \in DOMAIN ring.orgs THEN ring.orgs[item.org] ELSE ring.user

\* a wrapper that does not open to no item key.
ItemKey(item, owner) ==
    IF item.wrap = None THEN None ELSE DecryptCipherKey(owner, item.wrap)

\* Slip: no degrading, a wrapper that does not open leaves no key.
CipherKeyOrNone(item, ring) ==
    LET owner == OwningKey(item, ring) IN
    IF item.wrap = None THEN owner ELSE ItemKey(item, owner)

\* What every reader, the copy and the upload use.
CipherKey(item, ring) ==
    LET owner == OwningKey(item, ring)
        own == ItemKey(item, owner)
    IN  IF own = None THEN owner ELSE own

\* The item as the client of anyone who may read it finds it.
RealKey(item) == CipherKey(item, Everyones)
WrapOpens(item) ==
    item.wrap = None \/ item.wrap.under = OwningKey(item, Everyones)
ItemOpens(item) ==
    /\ WrapOpens(item)
    /\ \A p \in Parts : Opens(item.fields[p], RealKey(item))

-----------------------------------------------------------------------------
(* services/cipher.rs: what is sent.  None is an Err.                      *)

Buildable(input) == input.kind = "note" \/ input.whole

EncryptFields(input, key) ==
    [p \in Parts |-> IF p = "name" THEN Seal(input.fields[p], key)
                     ELSE SealOpt(input.fields[p], key)]

BuildCipherBody(input, key) ==
    IF ~Buildable(input) THEN None
    ELSE [kind |-> input.kind, org |-> input.org, coll |-> input.coll,
          wrap |-> None, fields |-> EncryptFields(input, key), past |-> <<>>,
          reprompt |-> input.reprompt]

BuildLoginCipherBody(input, key) ==
    BuildCipherBody([input EXCEPT !.kind = "login"], key)

\* history.truncate.
Truncate(past) ==
    SubSeq(past, 1, IF Len(past) <= HistoryCap THEN Len(past) ELSE HistoryCap)

\* The password an update replaces, if it opens and differs.
Replaced(input, key, existing) ==
    LET old == Decrypt(existing.fields["password"], key) IN
    IF Present(old) /\ old # input.fields["password"]
    THEN <<existing.fields["password"]>> ELSE <<>>

\* Slip: the body of a plain create, as before the history was echoed.
BuildWithoutHistory(input, key, existing) == BuildCipherBody(input, key)

BuildUpdateCipherBody(input, key, existing) ==
    IF BuildCipherBody(input, key) = None THEN None
    ELSE [BuildCipherBody(input, key) EXCEPT
            !.past = Truncate(Replaced(input, key, existing) \o existing.past)]

CipherToCreateInput(item, key) ==
    IF Decrypt(item.fields["name"], key) = None THEN None
    ELSE [kind |-> item.kind, org |-> item.org, coll |-> item.coll,
          fields |-> [p \in Parts |->
            LET text == Decrypt(item.fields[p], key) IN
            IF p = "name" \/ Present(text) THEN text ELSE None],
          reprompt |-> item.reprompt, whole |-> item.whole]

ValidateMove(item, coll) == item.org = OrgOf[coll]

\* Slip: the wrapper goes along as it is.
SameWrap(item, own, target) == item.wrap

RewrappedKey(item, own, target) ==
    IF own = None THEN None ELSE EncryptCipherKey(own, target)

\* Slip: the history is left out, and the server clears it.
NoHistory(past, to) == <<>>

RewrappedHistory(past, to) == [n \in DOMAIN past |-> Reencrypt(past[n], to)]

\* An item with its own key keeps its fields and has the wrapper changed;
\* any other is re-encrypted, and one part that does not open is an error.
BuildShareCipherBody(item, source, target, coll) ==
    LET own == ItemKey(item, source)
        from == IF own = None THEN source ELSE own
        to == IF own = None THEN target ELSE own
    IN  IF \/ \E p \in Parts : ~Opens(item.fields[p], from)
           \/ \E n \in DOMAIN item.past : ~Opens(item.past[n], from)
           \/ ~Buildable(item)
        THEN None
        ELSE [kind |-> item.kind, org |-> OrgOf[coll], coll |-> coll,
              wrap |-> RewrappedKey(item, own, target),
              fields |-> [p \in Parts |-> Reencrypt(item.fields[p], to)],
              past |-> RewrappedHistory(item.past, to),
              reprompt |-> item.reprompt]

\* Slip: under the key of the owner, for an item that may have its own.
FileUnderOwner(id, item, ring) ==
    [id |-> id, cover |-> OwningKey(item, ring)]

\* upload_attachment: the file key and the name go under the cipher's key.
NewFile(id, item, ring) ==
    [id |-> id, cover |-> CipherKey(item, ring)]
=============================================================================
