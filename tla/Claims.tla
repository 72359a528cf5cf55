------------------------------- MODULE Claims -------------------------------
(***************************************************************************)
(* core/claims: claims as objects, as entries of a tree, as the hex string *)
(* and as the JSON of their metadata, and core/id.go: the identifiers that *)
(* are their subjects.                                                     *)
(*                                                                         *)
(* An entry is divided into cells where the fields of some claim begin or  *)
(* end, so that fields of two kinds overlap in the model exactly where     *)
(* their bytes do: the version and the expiration date are in cells that a *)
(* ClaimBasic uses for its slots.                                          *)
(***************************************************************************)
EXTENDS Integers, Sequences, FiniteSets, TLC

CONSTANTS
    Issuers,    \* issuers that the holder of the claim asks to issue it
    Bytes,      \* the bytes of identifiers
    Payloads,   \* what the slots of a claim are filled with
    Numbers,    \* expiration dates and versions
    MaxNonce    \* bound on the nonces an issuer gives out

ASSUME ClaimsAssumption ==
    /\ Bytes \subseteq 0 .. 255
    /\ Payloads \subseteq Nat
    /\ Numbers \subseteq Nat
    /\ MaxNonce \in Nat

-----------------------------------------------------------------------------
(* core/id.go: [type | genesis | checksum], with a genesis of two bytes.   *)
TypeBJP0 == <<0, 0>>

CalculateChecksum(typ, genesis) == (typ[1] + typ[2] + genesis[1] + genesis[2]) % 65536

NewID(typ, genesis) ==
    LET s == CalculateChecksum(typ, genesis) IN typ \o genesis \o <<s \div 256, s % 256>>

CheckChecksum(id) ==
    /\ SubSeq(id, 5, 6) # <<0, 0>>
    /\ id = NewID(SubSeq(id, 1, 2), SubSeq(id, 3, 4))

emptyID == <<0, 0, 0, 0, 0, 0>>
IDFromBytes(b) == b # emptyID /\ CheckChecksum(b)

IdGenesisFromIdenState(hash) == NewID(TypeBJP0, SubSeq(hash, Len(hash) - 1, Len(hash)))

Subjects == {IdGenesisFromIdenState(<<1, b, c>>) : b, c \in Bytes}

-----------------------------------------------------------------------------
(* merkletree.Entry, and its two halves.                                   *)
IndexCells == {"type", "flags", "version", "i0", "i1", "i2", "i3"}
ValueCells == {"nonce", "expiration", "v0", "v1", "v2", "v3"}
Cells == IndexCells \cup ValueCells

Zero == <<0>>
EmptyEntry == [x \in Cells |-> IF x = "flags" THEN {} ELSE Zero]

Index(e) == [x \in IndexCells |-> e[x]]
Value(e) == [x \in ValueCells |-> e[x]]

(* ClaimSubject and ClaimSubjectPos are the sets of the bits they set.     *)
Self == {}
OtherIden == {1}
Object == {0}
PosIndex == {}
PosValue == {0}

Shift(bits, n) == {b + n : b \in bits}
bool2byte(b) == IF b THEN {0} ELSE {}

ClaimTypeBasic == 0
ClaimTypeKeyBabyJub == 1
ClaimTypeOtherIden == 2
ClaimTypeDemo == 9    \* a type that is none of these

Header(t, subject, pos, expiration, version) ==
    [Type |-> t, Subject |-> subject, SubjectPos |-> pos, Expiration |-> expiration,
     Version |-> version]

ClaimHeaderBasic == Header(ClaimTypeBasic, Self, PosIndex, FALSE, FALSE)
ClaimHeaderKeyBabyJub == Header(ClaimTypeKeyBabyJub, Self, PosIndex, FALSE, FALSE)
ClaimHeaderOtherIden == Header(ClaimTypeOtherIden, OtherIden, PosIndex, FALSE, FALSE)

HeaderMarshal(h) ==
    ("type" :> <<h.Type>>)
    @@ ("flags" :> h.Subject \cup Shift(h.SubjectPos, 2) \cup Shift(bool2byte(h.Expiration), 3)
                   \cup Shift(bool2byte(h.Version), 4))

(* The position is not shifted back: that of a subject in the value is the *)
(* bit 2, which is neither of the two positions.                           *)
HeaderUnmarshal(e) ==
    Header(e["type"][1], e["flags"] \cap {0, 1}, e["flags"] \cap {2}, 3 \in e["flags"],
           4 \in e["flags"])

-----------------------------------------------------------------------------
(* Metadata, into an entry and from one.  Both panic where a subject has   *)
(* neither position.                                                       *)
NoMetadata == [header |-> Header(0, Self, PosIndex, FALSE, FALSE), Subject |-> Zero,
               Expiration |-> Zero, Version |-> Zero, RevNonce |-> Zero]

Panics(h) == h.Subject # Self /\ h.SubjectPos \notin {PosIndex, PosValue}

SubjectCell(h) == IF h.SubjectPos = PosIndex THEN "i1" ELSE "v1"
Only(condition, cells) == IF condition THEN cells ELSE <<>>

Marshal_IndexNonce(m, e) ==
    ("version" :> m.RevNonce)
    @@ Only(m.header.Expiration, "expiration" :> m.Expiration)
    @@ Only(m.header.Subject # Self, SubjectCell(m.header) :> m.Subject)
    @@ HeaderMarshal(m.header) @@ e
Marshal_NonceTwice(m, e) ==
    ("nonce" :> m.RevNonce)
    @@ ("expiration" :> m.RevNonce)
    @@ Only(m.header.Version, "version" :> m.Version)
    @@ Only(m.header.Subject # Self, SubjectCell(m.header) :> m.Subject)
    @@ HeaderMarshal(m.header) @@ e
Marshal(m, e) ==
    ("nonce" :> m.RevNonce)
    @@ Only(m.header.Expiration, "expiration" :> m.Expiration)
    @@ Only(m.header.Version, "version" :> m.Version)
    @@ Only(m.header.Subject # Self, SubjectCell(m.header) :> m.Subject)
    @@ HeaderMarshal(m.header) @@ e

Unmarshal(e) ==
    LET h == HeaderUnmarshal(e) IN
    [header |-> h,
     Subject |-> IF h.Subject # Self THEN e[SubjectCell(h)] ELSE Zero,
     Expiration |-> IF h.Expiration THEN e["expiration"] ELSE Zero,
     Version |-> IF h.Version THEN e["version"] ELSE Zero,
     RevNonce |-> e["nonce"]]

GetRevocationNonce(e) == e["nonce"]

(* checkHeader: the known types have one header each.                      *)
checkHeader(h) ==
    /\ h.Type = ClaimTypeBasic => h = ClaimHeaderBasic
    /\ h.Type = ClaimTypeKeyBabyJub => h = ClaimHeaderKeyBabyJub
    /\ h.Type = ClaimTypeOtherIden => h = ClaimHeaderOtherIden

-----------------------------------------------------------------------------
(* The claims.  Those with a type of their own keep what they put into     *)
(* their cells and make an entry each time; a ClaimGeneric keeps its entry,*)
(* and with it the hashes that the entry has cached.                       *)
ValueSlot == {"expiration", "v0", "v1", "v2", "v3"}
BasicSlots == {"version", "i0", "i1", "i2", "i3"} \cup ValueSlot
OtherIdenSlots == {"version", "i0", "i2", "i3"} \cup ValueSlot
KeyBabyJubSlots == {"i1", "i2", "i3"}

Slots(kind) ==
    CASE kind = "Basic" -> BasicSlots
      [] kind = "OtherIden" -> OtherIdenSlots
      [] kind = "KeyBabyJub" -> KeyBabyJubSlots

NotHashed == <<>>

Typed(kind, m, slots) == [kind |-> kind, metadata |-> m, slots |-> slots, hValue |-> NotHashed]
Generic(m, e) == [kind |-> "Generic", metadata |-> m, slots |-> e, hValue |-> NotHashed]

Entry(c) == Marshal(c.metadata, IF c.kind = "Generic" THEN c.slots ELSE c.slots @@ EmptyEntry)

(* NewClaimFromEntry, for the types it knows.                              *)
KindOf(t) == CASE t = ClaimTypeBasic -> "Basic"
               [] t = ClaimTypeKeyBabyJub -> "KeyBabyJub"
               [] t = ClaimTypeOtherIden -> "OtherIden"

FromEntry(e) ==
    LET kind == KindOf(e["type"][1]) IN Typed(kind, Unmarshal(e), [x \in Slots(kind) |-> e[x]])

(* What a user makes: NewClaimBasic, NewClaimKeyBabyJub, NewClaimOtherIden,*)
(* and NewClaimGeneric of an entry with any metadata in it.                *)
Metadatas(h) ==
    {[NoMetadata EXCEPT !.header = h, !.Subject = s, !.Expiration = x, !.Version = x] :
        s \in IF h.Subject = Self THEN {Zero} ELSE Subjects,
        x \in IF h.Expiration \/ h.Version THEN {<<n>> : n \in Numbers} ELSE {Zero}}

Filled(S, p) == [x \in S |-> <<p>>]

NewTyped ==
    UNION {{Typed(k[1], m, Filled(Slots(k[1]), p)) : m \in Metadatas(k[2]), p \in Payloads} :
           k \in {<<"Basic", ClaimHeaderBasic>>, <<"KeyBabyJub", ClaimHeaderKeyBabyJub>>,
                  <<"OtherIden", ClaimHeaderOtherIden>>}}

DemoHeaders == {Header(ClaimTypeDemo, s, pos, x, v) :
                    s \in {Self, OtherIden, Object}, pos \in {PosIndex, PosValue}, x, v \in BOOLEAN}
NewEntries ==
    UNION {{Marshal(m, Filled({"i2", "v2"}, p) @@ EmptyEntry) : m \in Metadatas(h), p \in Payloads} :
           h \in DemoHeaders}

-----------------------------------------------------------------------------
VARIABLES
    claim,    \* the object
    origin,   \* the entry it was made as, with the nonce it was given since
    altered,  \* whether a conversion that does not keep the entry was made
    tree,     \* of each issuer: the leaves, with what their key is the hash of
    nonce,    \* of each issuer: the next one
    wire      \* a message with the claim, or NoMessage

vars == <<claim, origin, altered, tree, nonce, wire>>

NoMessage == [kind |-> "none"]

Init ==
    /\ \/ /\ claim \in NewTyped
          /\ origin = Entry(claim)
       \/ \E e \in NewEntries :
             /\ ~Panics(HeaderUnmarshal(e))
             /\ claim = Generic(Unmarshal(e), e)
             /\ origin = e
    /\ altered = (claim.metadata.header.SubjectPos # PosIndex)
    /\ tree = [i \in Issuers |-> {}]
    /\ nonce = [i \in Issuers |-> 0]
    /\ wire = NoMessage

(* Entry, in a ClaimGeneric, writes into the entry it keeps.               *)
Written(c) == IF c.kind = "Generic" THEN [c EXCEPT !.slots = Entry(c)] ELSE c

(* HValue: the hash the entry has cached, or that of its value.  The entry *)
(* of a ClaimGeneric is the same the next time.                            *)
HValue(c) == IF c.hValue = NotHashed THEN Value(Entry(c)) ELSE c.hValue

Hashed(c) == IF c.kind = "Generic" THEN [c EXCEPT !.hValue = HValue(c)] ELSE c

HIndexFree(i, e) == \A l \in tree[i] : Index(l.data) # Index(e)

(* IssueClaim: the nonce is set whether or not the tree takes the entry.   *)
(* The key of the leaf is made of the hashes of the index, which stays the *)
(* same, and of the value.                                                 *)
IssueClaim(i) ==
    LET c == [claim EXCEPT !.metadata.RevNonce = <<nonce[i]>>] IN
    /\ nonce[i] < MaxNonce
    /\ nonce' = [nonce EXCEPT ![i] = @ + 1]
    /\ origin' = [origin EXCEPT !["nonce"] = <<nonce[i]>>]
    /\ \/ /\ HIndexFree(i, Entry(c))
          /\ tree' = [tree EXCEPT ![i] =
                        @ \cup {[data |-> Entry(c), hValue |-> HValue(c), kind |-> c.kind]}]
          /\ claim' = Hashed(Written(c))
       \/ /\ ~HIndexFree(i, Entry(c))
          /\ claim' = Written(c)
          /\ UNCHANGED tree
    /\ UNCHANGED <<altered, wire>>

(* ClaimToHex of the claim, as the claim of a credential is sent.          *)
SendEntry ==
    /\ wire = NoMessage
    /\ wire' = [kind |-> "entry", entry |-> Entry(claim)]
    /\ claim' = Written(claim)
    /\ UNCHANGED <<origin, altered, tree, nonce>>

(* NewClaimFromEntry.                                                      *)
NewClaimFromEntry ==
    /\ wire.kind = "entry"
    /\ wire.entry["type"][1] # ClaimTypeDemo
    /\ claim' = FromEntry(wire.entry)
    /\ origin' = [origin EXCEPT !["nonce"] = GetRevocationNonce(wire.entry)]
    /\ wire' = NoMessage
    /\ UNCHANGED <<altered, tree, nonce>>

(* NewClaimGeneric.                                                        *)
NewClaimGeneric ==
    /\ wire.kind = "entry"
    /\ claim' = Generic(Unmarshal(wire.entry), wire.entry)
    /\ origin' = [origin EXCEPT !["nonce"] = GetRevocationNonce(wire.entry)]
    /\ wire' = NoMessage
    /\ UNCHANGED <<altered, tree, nonce>>

(* HexToClaimGeneric leaves the metadata empty, and Entry writes it over   *)
(* what was in the string.                                                 *)
HexToClaimGeneric ==
    /\ wire.kind = "entry"
    /\ claim' = Generic(NoMetadata, wire.entry)
    /\ altered' = (altered \/ Marshal(NoMetadata, wire.entry) # wire.entry)
    /\ origin' = [origin EXCEPT !["nonce"] = GetRevocationNonce(wire.entry)]
    /\ wire' = NoMessage
    /\ UNCHANGED <<tree, nonce>>

(* Metadata as JSON, with the subject in base58.  A bit of it that is not  *)
(* in metadataJSON is lost, and a subject of no position is not encoded.   *)
SendMetadata ==
    /\ wire = NoMessage
    /\ claim.metadata.header.SubjectPos \in {PosIndex, PosValue}
    /\ wire' = [kind |-> "json", metadata |-> claim.metadata]
    /\ UNCHANGED <<claim, origin, altered, tree, nonce>>

(* One byte of the subject is mistaken on the way, or a version is added to*)
(* a claim that makes its entry anew (the index of a ClaimGeneric, whose   *)
(* hash is cached as well, is never changed here).                         *)
Mistake ==
    /\ wire.kind = "json"
    /\ wire.metadata = claim.metadata
    /\ \/ /\ wire.metadata.header.Subject # Self
          /\ \E n \in 1 .. Len(wire.metadata.Subject), b \in Bytes :
                wire' = [wire EXCEPT !.metadata.Subject[n] = b]
       \/ /\ claim.kind # "Generic"
          /\ wire' = [wire EXCEPT !.metadata.header.Version = TRUE]
    /\ UNCHANGED <<claim, origin, altered, tree, nonce>>

(* UnmarshalJSON into the metadata of the claim.  A subject that is no     *)
(* identifier is an error at once; one of checkHeader comes after the      *)
(* header has been set.                                                    *)
SubjectParses(m) == m.header.Subject # Self => IDFromBytes(m.Subject)

ReceiveMetadata ==
    LET m == wire.metadata IN
    /\ wire.kind = "json"
    /\ wire' = NoMessage
    /\ \/ /\ ~SubjectParses(m)
          /\ UNCHANGED <<claim, origin, altered>>
       \/ /\ SubjectParses(m)
          /\ ~checkHeader(m.header)
          /\ claim' = [claim EXCEPT !.metadata.header = m.header]
          /\ altered' = TRUE
          /\ UNCHANGED origin
       \/ /\ SubjectParses(m)
          /\ checkHeader(m.header)
          /\ claim' = [claim EXCEPT !.metadata = m]
          /\ origin' = [origin EXCEPT !["nonce"] = m.RevNonce]
          /\ UNCHANGED altered
    /\ UNCHANGED <<tree, nonce>>

Next ==
    \/ \E i \in Issuers : IssueClaim(i)
    \/ SendEntry
    \/ NewClaimFromEntry
    \/ NewClaimGeneric
    \/ HexToClaimGeneric
    \/ SendMetadata
    \/ Mistake
    \/ ReceiveMetadata

Spec == Init /\ [][Next]_vars

Symmetry == Permutations(Issuers)

-----------------------------------------------------------------------------
(* Through every sequence of issuing, of conversions and of mistaken       *)
(* subjects the claim keeps its entry: the index by which RevokeClaim and  *)
(* GenCredentialExistence find it in each tree, the nonce it was given     *)
(* last, the expiration date and the slots, none of which covers another.  *)
(* Except (altered): HexToClaimGeneric of a claim with any metadata, a     *)
(* ClaimGeneric whose header has a subject in the value, and a header that *)
(* checkHeader refused, which stays in the claim.                          *)
EntryKept == altered \/ Entry(claim) = origin

(* The key of a leaf is made of the value that is in the leaf, or, for a   *)
(* ClaimGeneric whose hash was cached when another issuer put it into its  *)
(* tree, of the value in that issuer's leaf, which differs in the nonce    *)
(* alone: the slots and the expiration date are committed to in any case,  *)
(* through conversions, refused issues and rewritten headers.              *)
StaleOnlyInNonce ==
    \A i \in Issuers : \A l \in tree[i] :
        \/ l.hValue = Value(l.data)
        \/ /\ l.kind = "Generic"
           /\ Value(l.data) = [l.hValue EXCEPT !["nonce"] = GetRevocationNonce(l.data)]
           /\ \E j \in Issuers \ {i} : \E k \in tree[j] : Value(k.data) = l.hValue

(* Violated.  "The entry should not be modified after creating because the *)
(* cached hIndex and hValue won't be updated": nobody does, and the key of *)
(* every leaf is made of what is in the leaf.                              *)
LeafCommitsToData == \A i \in Issuers : \A l \in tree[i] : l.hValue = Value(l.data)

=============================================================================
