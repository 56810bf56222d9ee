----------------------------- MODULE CipherViews -----------------------------
(***************************************************************************)
(* What the commands that read the vault make of it: the detail view and   *)
(* the values it leaves for later, the item list with its counts, the      *)
(* SSH keys an agent may load, the password audit, and the export file.    *)
(* A vault is a function from item ids to items, None where there is none. *)
(***************************************************************************)
EXTENDS CipherKeys, FiniteSets

CONSTANTS
    FilePasswords,       \* of export files
    CostFloor,           \* what a key derivation must at least cost
    Damages,             \* what may happen to a file on its way
    FolderLists, CollectionLists,   \* what a vault may list beside its items
    Breached, PrefixOf   \* texts a breach list has, and each text's hash prefix

\* None is no password and no key of a file.
ASSUME FileAssumption ==
    /\ CostFloor \in Nat \ {0}
    /\ Damages \subseteq {"none", "format", "key", "data", "auth", "salt", "weak",
                         "cost"}
    /\ None # "ours"
    /\ \A password \in FilePasswords, salt \in {"drawn", "other"},
         cost \in CostFloor..(CostFloor + 2) :
           <<password, [salt |-> salt, cost |-> cost]>> # None

\* A folder's or a collection's name, under None if it is in clear text: that is
\* how create_folder and rename_folder leave it in memory until a sync.
Name == [under : Keys \cup {None}, text : Texts]
Collection == [org : Orgs, name : Name]

ASSUME ListsAssumption ==
    /\ FolderLists \subseteq Seq(Name)
    /\ CollectionLists \subseteq Seq(Collection)
    /\ None \notin Name

Ids(vault) == {i \in DOMAIN vault : vault[i] # None}
Live(vault) == {i \in Ids(vault) : ~vault[i].trashed}

-----------------------------------------------------------------------------
(* commands/cipher.rs.                                                     *)

Shown(item, part, ring) == Decrypt(item.fields[part], CipherKey(item, ring))

\* The private key of an SSH item and the TOTP seed are reported as present by
\* their ciphertext, every other secret by what it decrypts to.
GetCipher(item, ring) ==
    [name |-> Shown(item, "name", ring), text |-> Shown(item, "text", ring),
     hasPassword |-> Present(Shown(item, "password", ring)),
     hasTotp |-> item.fields["totp"] # None,
     hasSecret |-> IF item.kind = "sshKey" THEN item.fields["secret"] # None
                   ELSE Present(Shown(item, "secret", ring)),
     files |-> [f \in item.files |-> f.cover = CipherKey(item, ring)],
     pastCount |-> Len(item.past), org |-> item.org,
     reprompt |-> item.reprompt]

\* reveal_field; decrypt_totp_secret is the same for the seed.
RevealField(item, part, ring) ==
    LET text == Shown(item, part, ring) IN IF Present(text) THEN text ELSE None

DecryptTotpSecret(item, ring) == RevealField(item, "totp", ring)

\* Entries that do not open are dropped.
PasswordHistory(item, ring) ==
    LET key == CipherKey(item, ring)
        upTo[n \in 0..Len(item.past)] ==
            IF n = 0 THEN <<>>
            ELSE IF Opens(item.past[n], key)
                 THEN Append(upTo[n - 1], item.past[n].text)
            ELSE upTo[n - 1]
    IN  upTo[Len(item.past)]

\* Whether the file key unwraps and the server has the bytes.
DownloadAttachment(item, file, ring, bytes) ==
    file.cover = CipherKey(item, ring) /\ file.id \in bytes

-----------------------------------------------------------------------------
(* build_sync_summary, the agent's key load, the audit.                    *)

\* Slip: the trash is counted.
SummaryWithTrash(vault, ring) ==
    [counts |-> [k \in Kinds |->
        Cardinality({i \in Ids(vault) : vault[i].kind = k})],
     total |-> Cardinality(Live(vault)),
     names |-> [i \in Ids(vault) |-> Shown(vault[i], "name", ring)]]

BuildSyncSummary(vault, ring) ==
    [counts |-> [k \in Kinds |->
        Cardinality({i \in Live(vault) : vault[i].kind = k})],
     total |-> Cardinality(Live(vault)),
     names |-> [i \in Ids(vault) |-> Shown(vault[i], "name", ring)]]

\* classify_ssh_cipher: loaded, or skipped with the reason.
ClassifySshCipher(item, ring) ==
    IF ~item.whole THEN "no data"
    ELSE IF item.fields["secret"] = None THEN "no private key"
    ELSE IF Shown(item, "secret", ring) = None THEN "does not open"
    ELSE "loaded"

SshKeys(vault) == {i \in Live(vault) : vault[i].kind = "sshKey"}
LoadedKeys(vault, ring) ==
    {i \in SshKeys(vault) : ClassifySshCipher(vault[i], ring) = "loaded"}
SkippedKeys(vault, ring) ==
    {i \in SshKeys(vault) : ClassifySshCipher(vault[i], ring)
                            \in {"no data", "no private key", "does not open"}}

AuditVaultPasswords(vault, ring) ==
    {<<i, Shown(vault[i], "password", ring)>> :
        i \in {j \in Live(vault) : Present(Shown(vault[j], "password", ring))}}

\* Items that share a password, a group each.
AnalyzeLocal(entries) ==
    {group \in {{e[1] : e \in {d \in entries : d[2] = text}} :
                  text \in {e[2] : e \in entries}} : Cardinality(group) >= 2}

\* The list is asked by prefix and answers with every hash that has it.
FetchPrefix(prefix) == {text \in Breached : PrefixOf[text] = prefix}

AuditPasswords(entries) ==
    LET listed == UNION {FetchPrefix(PrefixOf[e[2]]) : e \in entries} IN
    [checked |-> Cardinality(entries), reused |-> AnalyzeLocal(entries),
     pwned |-> {e \in entries : e[2] \in listed}]

-----------------------------------------------------------------------------
(* export.rs.                                                              *)

\* Slip: the password history is left as it is.
ReencryptFieldsOnly(item, ring) ==
    LET from == CipherKey(item, ring) IN
    IF \E p \in Parts : ~Opens(item.fields[p], from)
    THEN None
    ELSE [item EXCEPT
            !.wrap = None,
            !.fields = [p \in Parts |-> Reencrypt(item.fields[p], VaultKey)],
            !.files = {}]

ReencryptCipher(item, ring) ==
    LET from == CipherKey(item, ring) IN
    IF \/ \E p \in Parts : ~Opens(item.fields[p], from)
       \/ \E n \in DOMAIN item.past : ~Opens(item.past[n], from)
    THEN None
    ELSE [item EXCEPT
            !.wrap = None,
            !.fields = [p \in Parts |-> Reencrypt(item.fields[p], VaultKey)],
            !.past = RewrappedHistory(@, VaultKey),
            !.files = {}]

\* A folder's name is the user's, a collection's its organisation's; one of an
\* organisation the ring has not stays as it is.
Keyed(collection, ring) == collection.org \in DOMAIN ring.orgs
NamesOpen(folders, collections, ring) ==
    /\ \A n \in DOMAIN folders : Opens(folders[n], ring.user)
    /\ \A n \in DOMAIN collections :
         LET c == collections[n] IN
         Keyed(c, ring) => Opens(c.name, ring.orgs[c.org])

\* The trash is left out.  One name or one item that does not open fails the
\* export.
BuildExport(vault, folders, collections, ring) ==
    LET rekeyed == [i \in Live(vault) |-> ReencryptCipher(vault[i], ring)] IN
    IF \/ ~NamesOpen(folders, collections, ring)
       \/ \E i \in Live(vault) : rekeyed[i] = None
    THEN None
    ELSE [items |-> rekeyed,
          folders |-> [n \in DOMAIN folders |-> Reencrypt(folders[n], VaultKey)],
          collections |-> [n \in DOMAIN collections |->
              IF Keyed(collections[n], ring)
              THEN [collections[n] EXCEPT !.name = Reencrypt(@, VaultKey)]
              ELSE collections[n]]]

\* Every organisation of the file is mapped to the vault key.
OrgKeyMap(file) ==
    [o \in ({file.items[i].org : i \in Ids(file.items)} \cap Orgs)
             \cup {file.collections[n].org : n \in DOMAIN file.collections}
       |-> VaultKey]
FileRing(file) == [user |-> VaultKey, orgs |-> OrgKeyMap(file)]

\* One key per password, salt and cost; a cost below the floor is refused.
DeriveFileKey(password, header) ==
    IF header.cost < CostFloor THEN None ELSE <<password, header>>

\* header_auth is the header again, encrypted.
SealFile(vault, password) ==
    LET header == [salt |-> "drawn", cost |-> CostFloor + 1]
        key == DeriveFileKey(password, header)
    IN  [format |-> "ours", header |-> header,
         auth |-> [under |-> key, header |-> header],
         key |-> key, data |-> key, vault |-> vault]

\* What may happen to a file on its way: a header edited ("cost" is the last),
\* a ciphertext.
Damaged(file, damage) ==
    IF damage = "none" THEN file
    ELSE IF damage \in {"format", "key", "data"}
         THEN [file EXCEPT ![damage] = None]
    ELSE IF damage = "auth" THEN [file EXCEPT !.auth.under = None]
    ELSE IF damage = "salt" THEN [file EXCEPT !.header.salt = "other"]
    ELSE IF damage = "weak" THEN [file EXCEPT !.header.cost = 0]
    ELSE [file EXCEPT !.header.cost = @ + 1]

\* The first check that fails names the error.
OpenFile(file, password) ==
    LET key == DeriveFileKey(password, file.header) IN
    IF file.format # "ours" THEN "malformed"
    ELSE IF key = None THEN "refused"
    ELSE IF file.auth.under # key THEN "wrong password"
    ELSE IF file.auth.header # file.header \/ file.key # key \/ file.data # key
         THEN "malformed"
    ELSE "open"

\* import_encrypted: the items and the folders' names in clear text, or None.
ImportEncrypted(file, password) ==
    LET items == file.vault.items
        ring == FileRing(file.vault)
        inputs == [i \in Ids(items) |->
            CipherToCreateInput(items[i], CipherKey(items[i], ring))]
    IN  IF \/ OpenFile(file, password) # "open"
           \/ \E i \in DOMAIN inputs : inputs[i] = None
        THEN None
        ELSE [items |-> [i \in DOMAIN inputs |->
                           [inputs[i] EXCEPT !.org = None, !.coll = None]],
              folders |-> [n \in DOMAIN file.vault.folders |->
                             Decrypt(file.vault.folders[n], ring.user)]]
=============================================================================
