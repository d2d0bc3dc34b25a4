--------------------------- MODULE DocumentsProofs ---------------------------
(***************************************************************************)
(* Proofs about Documents for any number of tenants, rows, handlers and    *)
(* faults.                                                                 *)
(*                                                                         *)
(* A handler checks, other handlers delete, the handler writes.  Moves     *)
(* says what can have become of a row meanwhile: it is there as it was, or *)
(* it is gone for good, because an id is never used again.  ThreadOK says  *)
(* what a handler knows of the rows it checked, up to their deletion, and  *)
(* that is enough because the database refuses to refer to a row that is   *)
(* gone.  The id under which a handler is going to insert, and the object  *)
(* it has stored, belong to it alone (Held).                               *)
(***************************************************************************)
EXTENDS Documents, FiniteSetTheorems, TLAPS

USE FaultsAssumption, IdsAssumption

New == {"insert", "upload", "insertUpload"}
Holding == New \cup {"cleanup"}
OnDocument == {"metaRole", "metaBundle", "metaUpdate", "artifact", "addMember", "removeMember"}
OnSession == {"addMember", "removeMember"}

\* Only directory entries belong to the installation.
SystemRows == \A x \in Docs \cup Sites \cup Sessions : owner[x] # "system"

\* What is not there refers to nothing.
UnusedRows == \A d \in Docs : owner[d] = "unused" => doc[d].parent = None

\* A source has one artifact, on its site and in no bundle.
Artifacts ==
    \A d \in Docs : Live(d) =>
        /\ \A a, b \in ArtifactsOf(d) : a = b
        /\ \A a \in ArtifactsOf(d) : doc[a].site = doc[d].site /\ doc[a].bundle = None

TablesOK ==
    /\ SystemRows
    /\ UnusedRows
    /\ SameTenant
    /\ Artifacts
    /\ BundleIsRoot

\* What a handler knows of the rows it has checked.
ThreadOK(s) ==
    /\ s.pc # "idle" => s.org \in Orgs
    /\ s.pc \in OnDocument => s.doc \in Docs
    /\ s.pc = "metaUpdate" /\ s.bundle # None =>
          owner[s.bundle] # "unused" /\ doc[s.bundle].parent = None
    /\ s.pc = "artifact" =>
          /\ owner[s.doc] # "unused"
          /\ \/ owner[s.doc] = "deleted"
             \/ doc[s.doc].site = s.site
             \/ s.site # None /\ owner[s.site] = "deleted"
    /\ s.pc = "session" =>
          /\ s.session \in Sessions
          /\ s.kind # None => owner[s.kind] \in {s.org, "system", "deleted"}
    /\ s.pc \in OnSession => s.session \in Sessions /\ owner[s.session] \in {s.org, "deleted"}

ThreadsOK == \A t \in Threads : ThreadOK(thread[t])

\* What a handler that is making a document has for itself.
HeldBy(s) ==
    s.pc \in Holding =>
        /\ s.doc \in Docs
        /\ s.pc \in New => owner[s.doc] = "unused"
        /\ s.pc = "insertUpload" => s.doc \in objects
        /\ s.pc = "cleanup" => ~Live(s.doc) \/ s.doc \in lost

Held ==
    /\ \A t \in Threads : HeldBy(thread[t])
    /\ \A t, u \in Threads :
          t # u /\ thread[t].pc \in Holding /\ thread[u].pc \in Holding => thread[t].doc # thread[u].doc

IInv ==
    /\ TypeOK
    /\ TablesOK
    /\ ThreadsOK
    /\ Held
    /\ NoOrphanedUpload
    /\ UploadedHasObject

-----------------------------------------------------------------------------
(* What can become of a row *)

Moves ==
    /\ \A x \in Ids : owner[x] # "unused" => owner'[x] \in {owner[x], "deleted"}
    /\ \A x \in Ids : owner[x] = "unused" => owner'[x] \in Orgs \cup {"unused"}
    /\ \A d \in Docs : owner[d] # "unused" => doc'[d].parent \in {doc[d].parent, None}
    /\ \A d \in Docs : owner[d] # "unused" =>
          \/ owner'[d] = "deleted"
          \/ doc'[d].site = doc[d].site
          \/ doc[d].site # None /\ owner'[doc[d].site] = "deleted"
    /\ lost \subseteq lost'

\* What a handler knows stays true while others write.
LEMMA MovesThread ==
    ASSUME Moves, NEW s \in Thread, ThreadOK(s)
    PROVE  ThreadOK(s)'
<1>1. /\ s.bundle # None => s.bundle \in Docs /\ s.bundle \in Ids
      /\ s.kind # None => s.kind \in Ids
      /\ s.site # None => s.site \in Ids
      /\ s.pc \in OnDocument => s.doc \in Docs /\ s.doc \in Ids
      /\ s.session # None => s.session \in Ids
  BY DEF Thread, Ids, Entries, ThreadOK
<1>2. s.pc = "metaUpdate" /\ s.bundle # None => owner'[s.bundle] # "unused" /\ doc'[s.bundle].parent = None
  BY <1>1 DEF ThreadOK, Moves
<1>3. s.pc = "artifact" =>
        /\ owner'[s.doc] # "unused"
        /\ \/ owner'[s.doc] = "deleted"
           \/ doc'[s.doc].site = s.site
           \/ s.site # None /\ owner'[s.site] = "deleted"
  <2> SUFFICES ASSUME s.pc = "artifact"
               PROVE  /\ owner'[s.doc] # "unused"
                      /\ \/ owner'[s.doc] = "deleted"
                         \/ doc'[s.doc].site = s.site
                         \/ s.site # None /\ owner'[s.site] = "deleted"
    OBVIOUS
  <2>1. s.doc \in Docs /\ s.doc \in Ids /\ owner[s.doc] # "unused"
    BY <1>1 DEF ThreadOK, OnDocument
  <2>2. owner'[s.doc] # "unused"
    BY <2>1 DEF Moves
  <2>3. CASE owner[s.doc] = "deleted"
    BY <2>1, <2>2, <2>3 DEF Moves
  <2>4. CASE doc[s.doc].site = s.site
    BY <2>1, <2>2, <2>4 DEF Moves
  <2>5. CASE s.site # None /\ owner[s.site] = "deleted"
    BY <1>1, <2>2, <2>5 DEF Moves
  <2> QED
    BY <2>3, <2>4, <2>5 DEF ThreadOK
<1>4. s.pc = "session" => (s.kind # None => owner'[s.kind] \in {s.org, "system", "deleted"})
  BY <1>1 DEF ThreadOK, Moves
<1>5. s.pc \in OnSession => owner'[s.session] \in {s.org, "deleted"}
  BY <1>1 DEF ThreadOK, Moves, OnSession, Ids
<1> QED
  BY <1>2, <1>3, <1>4, <1>5 DEF ThreadOK

\* The references of a live document.
LEMMA References ==
    ASSUME IInv, NEW d \in Docs, Live(d)
    PROVE  /\ owner[d] \in Orgs
           /\ doc[d] \in Document
           /\ doc[d].site # None => doc[d].site \in Sites /\ owner[doc[d].site] = owner[d]
           /\ doc[d].parent # None => doc[d].parent \in Docs /\ owner[doc[d].parent] = owner[d]
           /\ doc[d].bundle # None => doc[d].bundle \in Docs /\ owner[doc[d].bundle] = owner[d]
           /\ doc[d].kind # None => doc[d].kind \in Kinds /\ owner[doc[d].kind] \in {owner[d], "system"}
           /\ doc[d].role # None => doc[d].role \in Roles /\ owner[doc[d].role] \in {owner[d], "system"}
<1>1. owner[d] \in Orgs
  BY DEF IInv, TablesOK, SystemRows, Live
<1>2. doc[d] \in Document
  BY DEF IInv, TypeOK
<1>3. InOrg(doc[d].site, owner[d]) /\ InOrg(doc[d].parent, owner[d]) /\ InOrg(doc[d].bundle, owner[d])
  BY DEF IInv, TablesOK, SameTenant
<1>4. VisibleTo(doc[d].kind, owner[d]) /\ VisibleTo(doc[d].role, owner[d])
  BY DEF IInv, TablesOK, SameTenant
<1> QED
  BY <1>1, <1>2, <1>3, <1>4 DEF InOrg, VisibleTo, Document

-----------------------------------------------------------------------------
(* The statements keep the tables in order *)

\* No row is written.
LEMMA NoWrite ==
    ASSUME IInv, UNCHANGED rows, lost \subseteq lost'
    PROVE  Moves /\ TablesOK'
<1>1. \A x \in Ids : owner[x] \in Orgs \cup {"unused", "system", "deleted"}
  BY DEF IInv, TypeOK
<1>2. Moves
  BY <1>1 DEF Moves, rows
<1>3. SystemRows' /\ UnusedRows'
  BY DEF IInv, TablesOK, SystemRows, UnusedRows, rows
<1>4. SameTenant'
  BY DEF IInv, TablesOK, SameTenant, Live, InOrg, VisibleTo, rows
<1>5. Artifacts' /\ BundleIsRoot'
  BY DEF IInv, TablesOK, Artifacts, ArtifactsOf, BundleIsRoot, Live, rows
<1> QED
  BY <1>2, <1>3, <1>4, <1>5 DEF TablesOK

\* A row that is not a document is created.
LEMMA CreateWrite ==
    ASSUME IInv, NEW x \in Ids \ Docs, owner[x] = "unused", NEW o \in Orgs,
           owner' = [owner EXCEPT ![x] = o],
           NEW k \in Kinds \cup {None}, VisibleTo(k, o),
           about' = IF x \in Sessions THEN [about EXCEPT ![x] = k] ELSE about,
           UNCHANGED <<doc, members, lost>>
    PROVE  /\ owner' \in [Ids -> Orgs \cup {"unused", "system", "deleted"}]
           /\ about' \in [Sessions -> Kinds \cup {None}]
           /\ Moves /\ TablesOK'
<1>1. /\ owner' \in [Ids -> Orgs \cup {"unused", "system", "deleted"}]
      /\ owner'[x] = o
      /\ \A y \in Ids : y # x => owner'[y] = owner[y]
  BY DEF IInv, TypeOK
<1>2. about' \in [Sessions -> Kinds \cup {None}]
  BY DEF IInv, TypeOK
<1>3. Docs \subseteq Ids /\ Sites \subseteq Ids /\ Sessions \subseteq Ids /\ Kinds \subseteq Ids /\ Roles \subseteq Ids
  BY DEF Ids, Entries
<1>4. Moves
  BY <1>1, <1>3 DEF Moves
<1>5. SystemRows' /\ UnusedRows'
  BY <1>1, <1>3 DEF IInv, TablesOK, SystemRows, UnusedRows
<1>6. \A d \in Docs : owner'[d] = owner[d]
  BY <1>1, <1>3
<1>7. SameTenant'
  <2>1. \A d \in Docs : Live(d)' =>
          /\ InOrg(doc[d].site, owner[d])'
          /\ InOrg(doc[d].parent, owner[d])'
          /\ InOrg(doc[d].bundle, owner[d])'
          /\ VisibleTo(doc[d].kind, owner[d])'
          /\ VisibleTo(doc[d].role, owner[d])'
    <3> SUFFICES ASSUME NEW d \in Docs, Live(d)
                 PROVE  /\ InOrg(doc[d].site, owner[d])'
                        /\ InOrg(doc[d].parent, owner[d])'
                        /\ InOrg(doc[d].bundle, owner[d])'
                        /\ VisibleTo(doc[d].kind, owner[d])'
                        /\ VisibleTo(doc[d].role, owner[d])'
      BY <1>6 DEF Live
    <3> QED
      BY <1>1, <1>3, <1>6, References DEF InOrg, VisibleTo
  <2>2. \A c \in Sessions : Live(c)' => VisibleTo(about[c], owner[c])'
    <3> SUFFICES ASSUME NEW c \in Sessions, Live(c)' PROVE VisibleTo(about[c], owner[c])'
      OBVIOUS
    <3>1. CASE c = x
      <4>1. about'[c] = k /\ owner'[c] = o
        BY <1>1, <3>1 DEF IInv, TypeOK
      <4>2. k # None => k \in Ids /\ k # x
        BY <1>3, <3>1 DEF Entries
      <4> QED
        BY <1>1, <4>1, <4>2 DEF VisibleTo
    <3>2. CASE c # x
      <4>1. about'[c] = about[c] /\ owner'[c] = owner[c] /\ about[c] \in Kinds \cup {None}
        BY <1>1, <1>3, <3>2 DEF IInv, TypeOK
      <4>2. VisibleTo(about[c], owner[c]) /\ owner[c] \in Orgs
        BY <4>1 DEF IInv, TablesOK, SameTenant, SystemRows, Live
      <4> QED
        BY <1>1, <1>3, <4>1, <4>2 DEF VisibleTo
    <3> QED
      BY <3>1, <3>2
  <2>3. \A m \in members : Live(m[1])' /\ owner'[m[2]] = owner'[m[1]]
    <3> SUFFICES ASSUME NEW m \in members PROVE Live(m[1])' /\ owner'[m[2]] = owner'[m[1]]
      OBVIOUS
    <3>1. m[1] \in Ids /\ m[2] \in Ids /\ Live(m[1]) /\ owner[m[2]] = owner[m[1]]
      BY <1>3 DEF IInv, TypeOK, TablesOK, SameTenant
    <3> QED
      BY <1>1, <3>1 DEF Live
  <2> QED
    BY <2>1, <2>2, <2>3 DEF SameTenant
<1>8. Artifacts' /\ BundleIsRoot'
  BY <1>6 DEF IInv, TablesOK, Artifacts, ArtifactsOf, BundleIsRoot, Live
<1> QED
  BY <1>1, <1>2, <1>4, <1>5, <1>7, <1>8 DEF TablesOK

\* Rows are deleted, with the artifacts of documents among them.
LEMMA DeleteWrite ==
    ASSUME IInv, NEW gone \in SUBSET Ids, \A x \in gone : owner[x] # "unused",
           \A d \in Docs : doc[d].parent \in gone => d \in gone,
           DeleteRows(gone), UNCHANGED lost
    PROVE  /\ owner' \in [Ids -> Orgs \cup {"unused", "system", "deleted"}]
           /\ doc' \in [Docs -> Document]
           /\ about' \in [Sessions -> Kinds \cup {None}]
           /\ members' \subseteq members
           /\ \A d \in Docs : doc'[d].uploaded => doc[d].uploaded
           /\ Moves /\ TablesOK'
<1>1. \A x \in Ids : owner'[x] = IF x \in gone THEN "deleted" ELSE owner[x]
  BY DEF DeleteRows
<1>2. \A d \in Docs : doc[d] \in Document
  BY DEF IInv, TypeOK
<1>3. \A d \in Docs : d \notin gone =>
        /\ doc'[d].site = IF doc[d].site \in gone THEN None ELSE doc[d].site
        /\ doc'[d].kind = IF doc[d].kind \in gone THEN None ELSE doc[d].kind
        /\ doc'[d].role = IF doc[d].role \in gone THEN None ELSE doc[d].role
        /\ doc'[d].bundle = IF doc[d].bundle \in gone THEN None ELSE doc[d].bundle
        /\ doc'[d].parent = doc[d].parent /\ doc'[d].uploaded = doc[d].uploaded
        /\ doc'[d] \in Document
  <2> SUFFICES ASSUME NEW d \in Docs, d \notin gone
               PROVE  /\ doc'[d].site = IF doc[d].site \in gone THEN None ELSE doc[d].site
                      /\ doc'[d].kind = IF doc[d].kind \in gone THEN None ELSE doc[d].kind
                      /\ doc'[d].role = IF doc[d].role \in gone THEN None ELSE doc[d].role
                      /\ doc'[d].bundle = IF doc[d].bundle \in gone THEN None ELSE doc[d].bundle
                      /\ doc'[d].parent = doc[d].parent /\ doc'[d].uploaded = doc[d].uploaded
                      /\ doc'[d] \in Document
    OBVIOUS
  <2> DEFINE Kept(x) == IF x \in gone THEN None ELSE x
  <2>1. doc'[d] = [doc[d] EXCEPT !.site = Kept(doc[d].site), !.kind = Kept(doc[d].kind),
                                 !.role = Kept(doc[d].role), !.bundle = Kept(doc[d].bundle)]
    BY <1>2 DEF DeleteRows, Unlink, Document
  <2>2. /\ Kept(doc[d].site) \in Sites \cup {None} /\ Kept(doc[d].kind) \in Kinds \cup {None}
        /\ Kept(doc[d].role) \in Roles \cup {None} /\ Kept(doc[d].bundle) \in Docs \cup {None}
    BY <1>2 DEF Document
  <2> HIDE DEF Kept
  <2>3. /\ doc'[d].site = Kept(doc[d].site) /\ doc'[d].kind = Kept(doc[d].kind)
        /\ doc'[d].role = Kept(doc[d].role) /\ doc'[d].bundle = Kept(doc[d].bundle)
        /\ doc'[d].parent = doc[d].parent /\ doc'[d].uploaded = doc[d].uploaded
        /\ doc'[d] \in Document
    BY <1>2, <2>1, <2>2 DEF Document
  <2> QED
    BY <2>3 DEF Kept
<1>4. \A d \in gone : d \in Docs => doc'[d] = NoDocument
  BY DEF DeleteRows, Unlink
<1>5. NoDocument \in Document /\ NoDocument.parent = None /\ NoDocument.uploaded = FALSE
  BY DEF NoDocument, Document
<1>6. Docs \subseteq Ids /\ Sites \subseteq Ids /\ Sessions \subseteq Ids /\ Kinds \subseteq Ids /\ Roles \subseteq Ids
  BY DEF Ids, Entries
<1>7. owner' \in [Ids -> Orgs \cup {"unused", "system", "deleted"}]
  <2>1. owner' = [x \in Ids |-> IF x \in gone THEN "deleted" ELSE owner[x]]
    BY DEF DeleteRows
  <2> QED
    BY <2>1 DEF IInv, TypeOK
<1>8. doc' \in [Docs -> Document]
  <2>1. \A d \in Docs : doc'[d] \in Document
    BY <1>3, <1>4, <1>5
  <2>2. doc' = [d \in Docs |-> doc'[d]]
    BY DEF DeleteRows, Unlink
  <2> QED
    BY <2>1, <2>2
<1>9. about' \in [Sessions -> Kinds \cup {None}] /\ members' \subseteq members
  BY DEF DeleteRows, IInv, TypeOK
<1>10. \A d \in Docs : doc'[d].uploaded => doc[d].uploaded
  BY <1>3, <1>4, <1>5
<1>11. Moves
  <2>1. \A d \in Docs : doc'[d].parent \in {doc[d].parent, None}
    BY <1>3, <1>4, <1>5
  <2>2. \A d \in Docs : \/ owner'[d] = "deleted"
                        \/ doc'[d].site = doc[d].site
                        \/ doc[d].site # None /\ owner'[doc[d].site] = "deleted"
    BY <1>1, <1>3, <1>6
  <2> QED
    BY <1>1, <2>1, <2>2 DEF Moves
<1>12. SystemRows' /\ UnusedRows'
  BY <1>1, <1>3, <1>6 DEF IInv, TablesOK, SystemRows, UnusedRows
<1>13. \A d \in Docs : Live(d)' => d \notin gone /\ Live(d) /\ owner'[d] = owner[d]
  BY <1>1, <1>6 DEF Live
<1>14. SameTenant'
  <2>1. \A d \in Docs : Live(d)' =>
          /\ InOrg(doc[d].site, owner[d])'
          /\ InOrg(doc[d].parent, owner[d])'
          /\ InOrg(doc[d].bundle, owner[d])'
          /\ VisibleTo(doc[d].kind, owner[d])'
          /\ VisibleTo(doc[d].role, owner[d])'
    <3> SUFFICES ASSUME NEW d \in Docs, Live(d), d \notin gone, owner'[d] = owner[d]
                 PROVE  /\ InOrg(doc[d].site, owner[d])'
                        /\ InOrg(doc[d].parent, owner[d])'
                        /\ InOrg(doc[d].bundle, owner[d])'
                        /\ VisibleTo(doc[d].kind, owner[d])'
                        /\ VisibleTo(doc[d].role, owner[d])'
      BY <1>13
    <3>1. doc[d].parent \notin gone
      OBVIOUS
    <3> QED
      BY <1>1, <1>3, <1>6, <3>1, References DEF InOrg, VisibleTo
  <2>2. \A c \in Sessions : Live(c)' => VisibleTo(about[c], owner[c])'
    <3> SUFFICES ASSUME NEW c \in Sessions, Live(c)' PROVE VisibleTo(about[c], owner[c])'
      OBVIOUS
    <3>1. c \notin gone /\ owner'[c] = owner[c] /\ Live(c)
      BY <1>1, <1>6 DEF Live
    <3>2. VisibleTo(about[c], owner[c]) /\ about[c] \in Kinds \cup {None}
      BY <3>1 DEF IInv, TypeOK, TablesOK, SameTenant
    <3>3. about'[c] = IF about[c] \in gone THEN None ELSE about[c]
      BY DEF DeleteRows
    <3> QED
      BY <1>1, <1>6, <3>1, <3>2, <3>3 DEF VisibleTo
  <2>3. \A m \in members' : Live(m[1])' /\ owner'[m[2]] = owner'[m[1]]
    <3> SUFFICES ASSUME NEW m \in members' PROVE Live(m[1])' /\ owner'[m[2]] = owner'[m[1]]
      OBVIOUS
    <3>1. m \in members /\ m[1] \notin gone /\ m[2] \notin gone
      BY DEF DeleteRows
    <3>2. m[1] \in Ids /\ m[2] \in Ids /\ Live(m[1]) /\ owner[m[2]] = owner[m[1]]
      BY <1>6, <3>1 DEF IInv, TypeOK, TablesOK, SameTenant
    <3> QED
      BY <1>1, <3>1, <3>2 DEF Live
  <2> QED
    BY <2>1, <2>2, <2>3 DEF SameTenant
<1>15. Artifacts'
  <2> SUFFICES ASSUME NEW d \in Docs, Live(d)'
               PROVE  /\ \A a, b \in ArtifactsOf(d)' : a = b
                      /\ \A a \in ArtifactsOf(d)' : doc'[a].site = doc'[d].site /\ doc'[a].bundle = None
    BY DEF Artifacts
  <2>1. d \notin gone /\ Live(d)
    BY <1>13
  <2>2. \A a \in ArtifactsOf(d)' : a \in ArtifactsOf(d) /\ a \in Docs /\ a \notin gone
    BY <1>3, <1>13 DEF ArtifactsOf
  <2>3. /\ \A a, b \in ArtifactsOf(d) : a = b
        /\ \A a \in ArtifactsOf(d) : doc[a].site = doc[d].site /\ doc[a].bundle = None
    BY <2>1 DEF IInv, TablesOK, Artifacts
  <2> QED
    BY <1>3, <2>1, <2>2, <2>3
<1>16. BundleIsRoot'
  <2> SUFFICES ASSUME NEW d \in Docs, Live(d)', doc'[d].bundle # None
               PROVE  doc'[doc'[d].bundle].parent = None
    BY DEF BundleIsRoot
  <2>1. d \notin gone /\ Live(d)
    BY <1>13
  <2>2. doc'[d].bundle = doc[d].bundle /\ doc[d].bundle \notin gone
    BY <1>3, <2>1
  <2>3. doc[d].bundle \in Docs /\ doc[doc[d].bundle].parent = None
    BY <1>2, <2>1, <2>2 DEF IInv, TablesOK, BundleIsRoot, Document
  <2> QED
    BY <1>3, <2>2, <2>3
<1> QED
  BY <1>7, <1>8, <1>9, <1>10, <1>11, <1>12, <1>14, <1>15, <1>16 DEF TablesOK

\* A document, or the one artifact of a document, is stored.
LEMMA StoreWrite ==
    ASSUME IInv, NEW d \in Docs, owner[d] = "unused", NEW new \in Document, NEW o \in Orgs,
           StoreDocument(d, new, o), new.bundle = None,
           new.parent # None => ArtifactsOf(new.parent) = {} /\ new.site = doc[new.parent].site,
           lost \subseteq lost'
    PROVE  /\ owner' \in [Ids -> Orgs \cup {"unused", "system", "deleted"}]
           /\ doc' \in [Docs -> Document]
           /\ doc'[d] = new /\ owner'[d] = o
           /\ \A x \in Ids : x # d => owner'[x] = owner[x]
           /\ \A x \in Docs : x # d => doc'[x] = doc[x]
           /\ Moves /\ TablesOK'
<1>1. d \in Ids /\ Docs \subseteq Ids /\ Sites \subseteq Ids /\ Sessions \subseteq Ids
      /\ Kinds \subseteq Ids /\ Roles \subseteq Ids
  BY DEF Ids, Entries
<1>2. /\ owner' \in [Ids -> Orgs \cup {"unused", "system", "deleted"}]
      /\ owner'[d] = o
      /\ \A x \in Ids : x # d => owner'[x] = owner[x]
  BY <1>1 DEF IInv, TypeOK, StoreDocument
<1>3. /\ doc' \in [Docs -> Document]
      /\ doc'[d] = new
      /\ \A x \in Docs : x # d => doc'[x] = doc[x]
  BY DEF IInv, TypeOK, StoreDocument
<1>4. \A x \in Docs : owner[x] # "unused" => x # d /\ owner'[x] = owner[x] /\ doc'[x] = doc[x]
  BY <1>1, <1>2, <1>3
<1>5. Moves
  BY <1>1, <1>2, <1>4 DEF Moves, IInv, TypeOK
<1>6. SystemRows'
  BY <1>1, <1>2 DEF IInv, TablesOK, SystemRows
<1>7. UnusedRows'
  BY <1>1, <1>2, <1>3 DEF IInv, TablesOK, UnusedRows
<1>8. \A x \in Ids : owner[x] # "unused" => owner'[x] = owner[x]
  BY <1>2
<1>9. /\ new.site # None => new.site \in Sites /\ owner[new.site] = o
      /\ new.parent # None => new.parent \in Docs /\ owner[new.parent] = o
      /\ new.kind # None => new.kind \in Kinds /\ owner[new.kind] \in {o, "system"}
      /\ new.role # None => new.role \in Roles /\ owner[new.role] \in {o, "system"}
  BY DEF StoreDocument, Accepted, check_document_org_isolation, check_document_kind_role_org,
         InOrg, VisibleTo, Document
<1>10. \A x \in Docs : x # d => Live(x)' = Live(x)
  BY <1>1, <1>2 DEF Live
<1>11. SameTenant'
  <2>1. \A x \in Docs : Live(x)' =>
          /\ InOrg(doc[x].site, owner[x])'
          /\ InOrg(doc[x].parent, owner[x])'
          /\ InOrg(doc[x].bundle, owner[x])'
          /\ VisibleTo(doc[x].kind, owner[x])'
          /\ VisibleTo(doc[x].role, owner[x])'
    <3> SUFFICES ASSUME NEW x \in Docs, Live(x)'
                 PROVE  /\ InOrg(doc[x].site, owner[x])'
                        /\ InOrg(doc[x].parent, owner[x])'
                        /\ InOrg(doc[x].bundle, owner[x])'
                        /\ VisibleTo(doc[x].kind, owner[x])'
                        /\ VisibleTo(doc[x].role, owner[x])'
      OBVIOUS
    <3>1. CASE x = d
      BY <1>1, <1>2, <1>3, <1>8, <1>9, <3>1 DEF InOrg, VisibleTo
    <3>2. CASE x # d
      <4>1. Live(x)
        BY <1>10, <3>2
      <4>2. owner'[x] = owner[x] /\ doc'[x] = doc[x]
        BY <1>1, <1>2, <1>3, <3>2
      <4> QED
        BY <1>1, <1>8, <4>1, <4>2, References DEF InOrg, VisibleTo
    <3> QED
      BY <3>1, <3>2
  <2>2. \A c \in Sessions : Live(c)' => VisibleTo(about[c], owner[c])'
    <3> SUFFICES ASSUME NEW c \in Sessions, Live(c)' PROVE VisibleTo(about[c], owner[c])'
      OBVIOUS
    <3>1. c \in Ids /\ c # d
      BY <1>1
    <3>2. about'[c] = about[c] /\ owner'[c] = owner[c] /\ Live(c) /\ about[c] \in Kinds \cup {None}
      BY <1>2, <3>1 DEF StoreDocument, Live, IInv, TypeOK
    <3>3. VisibleTo(about[c], owner[c]) /\ owner[c] \in Orgs
      BY <3>2 DEF IInv, TablesOK, SameTenant, SystemRows, Live
    <3> QED
      BY <1>1, <1>8, <3>2, <3>3 DEF VisibleTo
  <2>3. \A m \in members' : Live(m[1])' /\ owner'[m[2]] = owner'[m[1]]
    <3> SUFFICES ASSUME NEW m \in members PROVE Live(m[1])' /\ owner'[m[2]] = owner'[m[1]]
      BY DEF StoreDocument
    <3>1. m[1] \in Ids /\ m[2] \in Ids /\ Live(m[1]) /\ owner[m[2]] = owner[m[1]]
      BY <1>1 DEF IInv, TypeOK, TablesOK, SameTenant
    <3> QED
      BY <1>8, <3>1 DEF Live
  <2> QED
    BY <2>1, <2>2, <2>3 DEF SameTenant
<1>12. Artifacts'
  <2> SUFFICES ASSUME NEW x \in Docs, Live(x)'
               PROVE  /\ \A a, b \in ArtifactsOf(x)' : a = b
                      /\ \A a \in ArtifactsOf(x)' : doc'[a].site = doc'[x].site /\ doc'[a].bundle = None
    BY DEF Artifacts
  <2>1. CASE x = d
    <3>1. \A a \in Docs : Live(a)' => doc'[a].parent # d
      <4> SUFFICES ASSUME NEW a \in Docs, Live(a)', doc'[a].parent = d PROVE FALSE
        OBVIOUS
      <4>1. CASE a = d
        BY <1>1, <1>3, <1>9, <4>1
      <4>2. CASE a # d
        <5>1. Live(a) /\ doc[a].parent = d
          BY <1>3, <1>10, <4>2
        <5> QED
          BY <1>1, <5>1, References
      <4> QED
        BY <4>1, <4>2
    <3> QED
      BY <2>1, <3>1 DEF ArtifactsOf
  <2>2. CASE x # d
    <3>1. Live(x) /\ doc'[x] = doc[x]
      BY <1>3, <1>10, <2>2
    <3>2. /\ \A a, b \in ArtifactsOf(x) : a = b
          /\ \A a \in ArtifactsOf(x) : doc[a].site = doc[x].site /\ doc[a].bundle = None
      BY <3>1 DEF IInv, TablesOK, Artifacts
    <3>3. \A a \in ArtifactsOf(x)' : a \in Docs /\ (a # d => a \in ArtifactsOf(x))
      BY <1>3, <1>10 DEF ArtifactsOf
    <3>4. CASE d \in ArtifactsOf(x)'
      <4>1. new.parent = x /\ x # None
        BY <1>1, <1>3, <3>4 DEF ArtifactsOf
      <4>2. ArtifactsOf(x) = {} /\ new.site = doc[x].site
        BY <4>1
      <4>3. \A a \in ArtifactsOf(x)' : a = d
        BY <3>3, <4>2
      <4> QED
        BY <1>3, <3>1, <4>2, <4>3
    <3>5. CASE d \notin ArtifactsOf(x)'
      <4>1. \A a \in ArtifactsOf(x)' : a \in ArtifactsOf(x) /\ a \in Docs /\ a # d
        BY <3>3, <3>5
      <4> QED
        BY <1>3, <3>1, <3>2, <4>1
    <3> QED
      BY <3>4, <3>5
  <2> QED
    BY <2>1, <2>2
<1>13. BundleIsRoot'
  <2> SUFFICES ASSUME NEW x \in Docs, Live(x)', doc'[x].bundle # None
               PROVE  doc'[doc'[x].bundle].parent = None
    BY DEF BundleIsRoot
  <2>1. x # d
    BY <1>3
  <2>2. Live(x) /\ doc'[x] = doc[x]
    BY <1>3, <1>10, <2>1
  <2>3. doc[x].bundle \in Docs /\ owner[doc[x].bundle] # "unused"
    BY <2>2, References
  <2> QED
    BY <1>4, <2>2, <2>3 DEF IInv, TablesOK, BundleIsRoot
<1> QED
  BY <1>2, <1>3, <1>5, <1>6, <1>7, <1>11, <1>12, <1>13 DEF TablesOK

\* UpdateMeta gives a root document the references that were checked.
LEMMA MetaWrite ==
    ASSUME IInv, NEW t \in Threads, UpdateMeta(t)
    PROVE  doc' \in [Docs -> Document] /\ Moves /\ TablesOK'
           /\ \A d \in Docs : doc'[d].uploaded = doc[d].uploaded
<1>1. UNCHANGED <<owner, about, members, lost>>
  BY DEF UpdateMeta, history
<1>2. CASE UNCHANGED doc
  <2>1. UNCHANGED rows
    BY <1>1, <1>2 DEF rows
  <2> QED
    BY <1>1, <1>2, <2>1, NoWrite DEF IInv, TypeOK
<1>3. CASE doc' # doc
  <2> DEFINE d == thread[t].doc
             o == thread[t].org
             new == WithMeta(t)
  <2>1. /\ thread[t].pc = "metaUpdate"
        /\ owner[d] = o /\ doc[d].parent = None /\ Accepted(d, new, o)
        /\ doc' = [doc EXCEPT ![d] = new]
    BY <1>3 DEF UpdateMeta
  <2>2. thread[t] \in Thread /\ ThreadOK(thread[t])
    BY DEF IInv, TypeOK, ThreadsOK
  <2>3. d \in Docs /\ o \in Orgs /\ doc[d] \in Document
    BY <2>1, <2>2 DEF ThreadOK, OnDocument, IInv, TypeOK
  <2>4. /\ Coalesce(thread[t].kind, doc[d].kind) \in Kinds \cup {None}
        /\ Coalesce(thread[t].role, doc[d].role) \in Roles \cup {None}
        /\ Coalesce(thread[t].bundle, doc[d].bundle) \in Docs \cup {None}
    BY <2>2, <2>3 DEF Thread, Document, Coalesce
  <2>5. new = [doc[d] EXCEPT !.kind = Coalesce(thread[t].kind, doc[d].kind),
                             !.role = Coalesce(thread[t].role, doc[d].role),
                             !.bundle = Coalesce(thread[t].bundle, doc[d].bundle)]
    BY <2>3 DEF WithMeta, Document
  <2>6. /\ new \in Document
        /\ new.site = doc[d].site /\ new.parent = None /\ new.uploaded = doc[d].uploaded
        /\ new.bundle = Coalesce(thread[t].bundle, doc[d].bundle)
    BY <2>1, <2>3, <2>4, <2>5 DEF Document
  <2>7. /\ new.site # None => new.site \in Sites /\ owner[new.site] = o
        /\ new.bundle # None => new.bundle \in Docs /\ owner[new.bundle] = o
        /\ new.kind # None => new.kind \in Kinds /\ owner[new.kind] \in {o, "system"}
        /\ new.role # None => new.role \in Roles /\ owner[new.role] \in {o, "system"}
    BY <2>1, <2>6 DEF Accepted, check_document_org_isolation, check_document_kind_role_org,
           InOrg, VisibleTo, Document
  <2>8. /\ doc' \in [Docs -> Document] /\ doc'[d] = new
        /\ \A x \in Docs : x # d => doc'[x] = doc[x]
    <3> HIDE DEF new, d
    <3> QED
      BY <2>1, <2>3, <2>6 DEF IInv, TypeOK
  <2>9. new.bundle # None => doc[new.bundle].parent = None
    <3>1. CASE thread[t].bundle = None
      BY <2>1, <2>3, <2>6, <3>1 DEF Coalesce, IInv, TablesOK, BundleIsRoot, Live
    <3>2. CASE thread[t].bundle # None
      BY <2>1, <2>2, <2>6, <3>2 DEF Coalesce, ThreadOK
    <3> QED
      BY <3>1, <3>2
  <2> HIDE DEF new, d, o
  <2>10. \A x \in Docs : /\ doc'[x].site = doc[x].site
                         /\ doc'[x].parent = doc[x].parent
                         /\ doc'[x].uploaded = doc[x].uploaded
    BY <2>1, <2>6, <2>8
  <2>11. Moves
    BY <1>1, <2>10 DEF Moves, IInv, TypeOK
  <2>12. SystemRows' /\ UnusedRows'
    BY <1>1, <2>10 DEF IInv, TablesOK, SystemRows, UnusedRows
  <2>13. SameTenant'
    <3>1. \A x \in Docs : Live(x)' =>
            /\ InOrg(doc[x].site, owner[x])'
            /\ InOrg(doc[x].parent, owner[x])'
            /\ InOrg(doc[x].bundle, owner[x])'
            /\ VisibleTo(doc[x].kind, owner[x])'
            /\ VisibleTo(doc[x].role, owner[x])'
      <4> SUFFICES ASSUME NEW x \in Docs, Live(x)
                   PROVE  /\ InOrg(doc[x].site, owner[x])'
                          /\ InOrg(doc[x].parent, owner[x])'
                          /\ InOrg(doc[x].bundle, owner[x])'
                          /\ VisibleTo(doc[x].kind, owner[x])'
                          /\ VisibleTo(doc[x].role, owner[x])'
        BY <1>1 DEF Live
      <4>1. CASE x = d
        BY <1>1, <2>1, <2>6, <2>7, <2>8, <4>1 DEF InOrg, VisibleTo
      <4>2. CASE x # d
        BY <1>1, <2>8, <4>2, References DEF InOrg, VisibleTo
      <4> QED
        BY <4>1, <4>2
    <3> QED
      BY <1>1, <3>1 DEF IInv, TablesOK, SameTenant, Live, VisibleTo
  <2>14. Artifacts'
    <3> SUFFICES ASSUME NEW x \in Docs, Live(x)
                 PROVE  /\ \A a, b \in ArtifactsOf(x)' : a = b
                        /\ \A a \in ArtifactsOf(x)' : doc'[a].site = doc'[x].site /\ doc'[a].bundle = None
      BY <1>1 DEF Artifacts, Live
    <3>1. ArtifactsOf(x)' = ArtifactsOf(x)
      BY <1>1, <2>10 DEF ArtifactsOf, Live
    <3>2. \A a \in ArtifactsOf(x) : a \in Docs /\ a # d
      BY <2>1 DEF ArtifactsOf, Ids
    <3> QED
      BY <2>8, <2>10, <3>1, <3>2 DEF IInv, TablesOK, Artifacts
  <2>15. BundleIsRoot'
    <3> SUFFICES ASSUME NEW x \in Docs, Live(x), doc'[x].bundle # None
                 PROVE  doc'[doc'[x].bundle].parent = None
      BY <1>1 DEF BundleIsRoot, Live
    <3>1. CASE x = d
      BY <2>7, <2>8, <2>9, <2>10, <3>1
    <3>2. CASE x # d
      <4>1. doc'[x] = doc[x] /\ doc[x].bundle \in Docs
        BY <2>8, <3>2, References
      <4> QED
        BY <2>10, <4>1 DEF IInv, TablesOK, BundleIsRoot
    <3> QED
      BY <3>1, <3>2
  <2> QED
    BY <2>8, <2>10, <2>11, <2>12, <2>13, <2>14, <2>15 DEF TablesOK
<1> QED
  BY <1>2, <1>3

\* Only the members of sessions are written, and they are of the session's tenant.
LEMMA MembersWrite ==
    ASSUME IInv, UNCHANGED <<owner, doc, about, lost>>,
           \A m \in members' : m \in members
                              \/ (m \in Sessions \X Docs /\ Live(m[1]) /\ owner[m[2]] = owner[m[1]])
    PROVE  members' \subseteq Sessions \X Docs /\ Moves /\ TablesOK'
<1>1. members' \subseteq Sessions \X Docs
  BY DEF IInv, TypeOK
<1>2. Moves
  BY DEF IInv, TypeOK, Moves
<1>3. SystemRows' /\ UnusedRows'
  BY DEF IInv, TablesOK, SystemRows, UnusedRows
<1>4. SameTenant'
  BY DEF IInv, TablesOK, SameTenant, Live, InOrg, VisibleTo
<1>5. Artifacts' /\ BundleIsRoot'
  BY DEF IInv, TablesOK, Artifacts, ArtifactsOf, BundleIsRoot, Live
<1> QED
  BY <1>1, <1>2, <1>3, <1>4, <1>5 DEF TablesOK

-----------------------------------------------------------------------------
(* What a step has to show *)

\* A handler t takes a step to s.  It is enough that s knows and holds what it
\* should, that it lets the others' documents and objects alone, and that it
\* accounts for the objects it stores or removes.
LEMMA Assemble ==
    ASSUME IInv, TypeOK', Moves, TablesOK',
           NEW t \in Threads, NEW s \in Thread, thread' = [thread EXCEPT ![t] = s],
           ThreadOK(s)', HeldBy(s)',
           s.pc \in Holding => (thread[t].pc \in Holding /\ s.doc = thread[t].doc) \/ Fresh(s.doc),
           \A u \in Threads \ {t} : thread[u].pc \in Holding =>
               /\ owner[thread[u].doc] = "unused" => owner'[thread[u].doc] = "unused"
               /\ thread[u].doc \in objects => thread[u].doc \in objects',
           leaked \subseteq leaked',
           \A k \in objects' \ objects : k \in leaked' \/ (s.pc = "insertUpload" /\ s.doc = k),
           thread[t].pc \in {"insertUpload", "cleanup"} =>
               \/ thread[t].doc \notin objects' \/ owner'[thread[t].doc] # "unused"
               \/ thread[t].doc \in leaked'
               \/ s.pc \in {"insertUpload", "cleanup"} /\ s.doc = thread[t].doc,
           \A k \in objects \ objects' : ~Live(k)' \/ k \in lost',
           \A d \in Docs : Live(d)' /\ doc'[d].uploaded =>
               (Live(d) /\ doc[d].uploaded) \/ d \in objects' \/ d \in lost'
    PROVE  IInv'
<1>1. thread \in [Threads -> Thread]
  BY DEF IInv, TypeOK
<1>2. thread'[t] = s /\ \A u \in Threads : u # t => thread'[u] = thread[u]
  BY <1>1
<1>3. ThreadsOK'
  <2> SUFFICES ASSUME NEW u \in Threads PROVE ThreadOK(thread[u])'
    BY DEF ThreadsOK
  <2>1. CASE u = t
    BY <1>2, <2>1
  <2>2. CASE u # t
    <3>1. thread[u] \in Thread /\ ThreadOK(thread[u])
      BY <1>1 DEF IInv, ThreadsOK
    <3>2. PICK w \in Thread : w = thread[u] /\ ThreadOK(w)
      BY <3>1
    <3>3. ThreadOK(w)'
      BY <3>2, MovesThread
    <3>4. thread'[u] = w
      BY <1>2, <2>2, <3>2
    <3> QED
      BY <3>3, <3>4
  <2> QED
    BY <2>1, <2>2
<1>4. Held'
  <2>1. \A u \in Threads : HeldBy(thread[u])'
    <3> SUFFICES ASSUME NEW u \in Threads PROVE HeldBy(thread[u])'
      OBVIOUS
    <3>1. CASE u = t
      BY <1>2, <3>1
    <3>2. CASE u # t
      <4>1. thread'[u] = thread[u]
        BY <1>2, <3>2
      <4>2. HeldBy(thread[u])
        BY DEF IInv, Held
      <4>3. ASSUME thread[u].pc \in Holding
            PROVE  /\ thread[u].doc \in Docs
                   /\ thread[u].pc \in New => owner'[thread[u].doc] = "unused"
                   /\ thread[u].pc = "insertUpload" => thread[u].doc \in objects'
                   /\ thread[u].pc = "cleanup" => ~Live(thread[u].doc)' \/ thread[u].doc \in lost'
        <5>1. thread[u].doc \in Docs /\ thread[u].doc \in Ids
          BY <4>2, <4>3 DEF HeldBy, Ids
        <5>2. /\ owner[thread[u].doc] = "unused" => owner'[thread[u].doc] = "unused"
              /\ thread[u].doc \in objects => thread[u].doc \in objects'
          BY <3>2, <4>3
        <5>3. ~Live(thread[u].doc) => ~Live(thread[u].doc)'
          <6>1. owner[thread[u].doc] \in Orgs \cup {"unused", "system", "deleted"}
            BY <5>1 DEF IInv, TypeOK
          <6>2. owner[thread[u].doc] = "deleted" => owner'[thread[u].doc] = "deleted"
            BY <5>1 DEF Moves
          <6> QED
            BY <4>1, <5>2, <6>1, <6>2 DEF Live
        <5>4. thread[u].doc \in lost => thread[u].doc \in lost'
          BY DEF Moves
        <5> QED
          BY <4>2, <4>3, <5>1, <5>2, <5>3, <5>4 DEF HeldBy
      <4> QED
        BY <4>1, <4>3 DEF HeldBy
    <3> QED
      BY <3>1, <3>2
  <2>2. ASSUME NEW u \in Threads, u # t, s.pc \in Holding, thread[u].pc \in Holding
        PROVE  s.doc # thread[u].doc
    <3>1. CASE thread[t].pc \in Holding /\ s.doc = thread[t].doc
      BY <2>2, <3>1 DEF IInv, Held
    <3>2. CASE Fresh(s.doc)
      BY <2>2, <3>2 DEF Fresh, Holding, New
    <3> QED
      BY <2>2, <3>1, <3>2
  <2>3. \A u, v \in Threads :
          u # v /\ thread'[u].pc \in Holding /\ thread'[v].pc \in Holding => thread'[u].doc # thread'[v].doc
    <3> SUFFICES ASSUME NEW u \in Threads, NEW v \in Threads,
                        u # v, thread'[u].pc \in Holding, thread'[v].pc \in Holding
                 PROVE  thread'[u].doc # thread'[v].doc
      OBVIOUS
    <3>1. CASE u = t
      BY <1>2, <2>2, <3>1
    <3>2. CASE v = t
      BY <1>2, <2>2, <3>2
    <3>3. CASE u # t /\ v # t
      BY <1>2, <3>3 DEF IInv, Held
    <3> QED
      BY <3>1, <3>2, <3>3
  <2> QED
    BY <2>1, <2>3 DEF Held
<1>5. NoOrphanedUpload'
  <2> SUFFICES ASSUME NEW k \in objects', k \notin leaked', owner'[k] = "unused"
               PROVE  \E u \in Threads :
                         thread'[u].pc \in {"insertUpload", "cleanup"} /\ thread'[u].doc = k
    BY DEF NoOrphanedUpload
  <2>1. CASE k \notin objects
    BY <1>2, <2>1
  <2>2. CASE k \in objects
    <3>1. k \in Ids
      BY <2>2 DEF IInv, TypeOK, Ids
    <3>2. owner[k] = "unused" /\ k \notin leaked
      BY <3>1 DEF Moves
    <3>3. PICK u \in Threads : thread[u].pc \in {"insertUpload", "cleanup"} /\ thread[u].doc = k
      BY <2>2, <3>2 DEF IInv, NoOrphanedUpload
    <3>4. CASE u = t
      BY <1>2, <3>3, <3>4
    <3>5. CASE u # t
      BY <1>2, <3>3, <3>5
    <3> QED
      BY <3>4, <3>5
  <2> QED
    BY <2>1, <2>2
<1>6. UploadedHasObject'
  <2> SUFFICES ASSUME NEW d \in Docs, Live(d)', doc'[d].uploaded, d \notin lost'
               PROVE  d \in objects'
    BY DEF UploadedHasObject
  <2>1. CASE Live(d) /\ doc[d].uploaded
    <3>1. d \in objects
      BY <2>1 DEF IInv, UploadedHasObject, Moves
    <3> QED
      BY <3>1
  <2> QED
    BY <2>1
<1> QED
  BY <1>3, <1>4, <1>5, <1>6 DEF IInv

\* A request that makes no document and has no handler of its own.
LEMMA AssembleEdit ==
    ASSUME IInv, TypeOK', Moves, TablesOK',
           UNCHANGED <<objects, thread, faults, lost, leaked>>,
           \A d \in Docs : owner[d] = "unused" => owner'[d] = "unused",
           \A d \in Docs : doc'[d].uploaded => doc[d].uploaded
    PROVE  IInv'
<1>1. \A d \in Docs : Live(d)' => Live(d)
  BY DEF Moves, Live, Ids
<1>2. ThreadsOK'
  <2> SUFFICES ASSUME NEW u \in Threads PROVE ThreadOK(thread[u])'
    BY DEF ThreadsOK
  <2>1. PICK w \in Thread : w = thread[u] /\ ThreadOK(w)
    BY DEF IInv, TypeOK, ThreadsOK
  <2>2. ThreadOK(w)'
    BY <2>1, MovesThread
  <2>3. thread'[u] = w
    BY <2>1
  <2> QED
    BY <2>2, <2>3
<1>3. Held'
  <2>1. \A u \in Threads : HeldBy(thread[u])'
    <3> SUFFICES ASSUME NEW u \in Threads PROVE HeldBy(thread[u])'
      OBVIOUS
    <3>1. HeldBy(thread[u])
      BY DEF IInv, Held
    <3> QED
      BY <1>1, <3>1 DEF HeldBy
  <2> QED
    BY <2>1 DEF IInv, Held
<1>4. NoOrphanedUpload'
  BY DEF IInv, NoOrphanedUpload, TypeOK, Moves, Ids
<1>5. UploadedHasObject'
  BY <1>1 DEF IInv, UploadedHasObject
<1> QED
  BY <1>2, <1>3, <1>4, <1>5 DEF IInv

\* A handler only reads.
LEMMA ReadStep ==
    ASSUME IInv, UNCHANGED <<owner, doc, about, members, objects, history>>,
           NEW t \in Threads, NEW s \in Thread, thread' = [thread EXCEPT ![t] = s],
           ThreadOK(s), HeldBy(s),
           s.pc \in Holding => (thread[t].pc \in Holding /\ s.doc = thread[t].doc) \/ Fresh(s.doc),
           thread[t].pc \in {"insertUpload", "cleanup"} =>
               s.pc \in {"insertUpload", "cleanup"} /\ s.doc = thread[t].doc
    PROVE  IInv'
<1>1. UNCHANGED <<owner, doc, about, members, objects, faults, lost, leaked>>
  BY DEF history
<1>2. Moves /\ TablesOK'
  BY <1>1, NoWrite DEF rows
<1>3. TypeOK'
  BY <1>1 DEF IInv, TypeOK
<1>4. ThreadOK(s)'
  BY <1>2, MovesThread
<1>5. HeldBy(s)'
  BY <1>1 DEF HeldBy, Live
<1> QED
  BY <1>1, <1>2, <1>3, <1>4, <1>5, Assemble DEF Live

-----------------------------------------------------------------------------
(* The requests *)

\* An idle handler, and a handler that ends, know and hold nothing.
LEMMA IdleOK == IdleThread \in Thread /\ ThreadOK(IdleThread) /\ HeldBy(IdleThread)
                /\ IdleThread.pc = "idle" /\ ThreadOK(IdleThread)' /\ HeldBy(IdleThread)'
<1>1. IdleThread \in Thread /\ IdleThread.pc = "idle"
  BY DEF IdleThread, Thread, Pcs
<1> QED
  BY <1>1 DEF ThreadOK, HeldBy, OnDocument, OnSession, Holding, New

\* CreateDocument and UploadDocument choose an id nobody has.
LEMMA CreateDocumentStep ==
    ASSUME IInv, NEW t \in Threads, NEW o \in Orgs, NEW d \in Docs, NEW x \in Sites \cup {None},
           CreateDocument(t, o, d, x) \/ UploadDocument(t, o, d, x)
    PROVE  IInv'
<1>1. PICK pc \in {"insert", "upload"} :
        /\ thread[t].pc = "idle" /\ Fresh(d)
        /\ thread' = [thread EXCEPT ![t] =
                         [IdleThread EXCEPT !.pc = pc, !.org = o, !.doc = d, !.site = x]]
        /\ UNCHANGED <<owner, doc, about, members, objects, history>>
  BY DEF CreateDocument, UploadDocument, Become
<1>2. PICK s : s = [IdleThread EXCEPT !.pc = pc, !.org = o, !.doc = d, !.site = x]
  OBVIOUS
<1>3. s \in Thread /\ s.pc = pc /\ s.org = o /\ s.doc = d
  BY <1>2 DEF IdleThread, Thread, Pcs
<1>4. ThreadOK(s)
  BY <1>3 DEF ThreadOK, OnDocument, OnSession
<1>5. HeldBy(s)
  BY <1>1, <1>3 DEF HeldBy, Fresh, New
<1>6. thread' = [thread EXCEPT ![t] = s]
  BY <1>1, <1>2
<1> QED
  BY <1>1, <1>3, <1>4, <1>5, <1>6, ReadStep

\* UpdateDocumentMeta begins with the kind.
LEMMA UpdateDocumentMetaStep ==
    ASSUME IInv, NEW t \in Threads, NEW o \in Orgs, NEW d \in Docs, NEW k \in Kinds \cup {None},
           NEW r \in Roles \cup {None}, NEW b \in Docs \cup {None},
           UpdateDocumentMeta(t, o, d, k, r, b)
    PROVE  IInv'
<1>1. PICK s : s = [IdleThread EXCEPT !.pc = "metaRole", !.org = o, !.doc = d,
                                      !.kind = k, !.role = r, !.bundle = b]
  OBVIOUS
<1>2. /\ thread[t].pc = "idle"
      /\ thread' = [thread EXCEPT ![t] = s]
      /\ UNCHANGED <<owner, doc, about, members, objects, history>>
  BY <1>1 DEF UpdateDocumentMeta, Become
<1>3. s \in Thread /\ s.pc = "metaRole" /\ s.org = o /\ s.doc = d
  BY <1>1 DEF IdleThread, Thread, Pcs
<1>4. ThreadOK(s) /\ HeldBy(s)
  BY <1>3 DEF ThreadOK, OnDocument, OnSession, HeldBy, Holding, New
<1> QED
  BY <1>2, <1>3, <1>4, ReadStep DEF Holding, New

\* registerConvertArtifacts takes a snapshot of the source.
LEMMA RegisterArtifactsStep ==
    ASSUME IInv, NEW t \in Threads, NEW d \in Docs, RegisterArtifacts(t, d)
    PROVE  IInv'
<1>1. PICK s : s = [IdleThread EXCEPT !.pc = "artifact", !.org = owner[d], !.doc = d,
                                      !.site = doc[d].site]
  OBVIOUS
<1>2. /\ thread[t].pc = "idle" /\ owner[d] \in Orgs
      /\ thread' = [thread EXCEPT ![t] = s]
      /\ UNCHANGED <<owner, doc, about, members, objects, history>>
  BY <1>1 DEF RegisterArtifacts, Become
<1>3. doc[d].site \in Sites \cup {None}
  BY DEF IInv, TypeOK, Document
<1>4. s \in Thread /\ s.pc = "artifact" /\ s.org = owner[d] /\ s.doc = d /\ s.site = doc[d].site
  BY <1>1, <1>2, <1>3 DEF IdleThread, Thread, Pcs
<1>5. ThreadOK(s) /\ HeldBy(s)
  BY <1>2, <1>4 DEF ThreadOK, OnDocument, OnSession, HeldBy, Holding, New
<1> QED
  BY <1>2, <1>4, <1>5, ReadStep DEF Holding, New

\* ComparisonSessionService.Create begins with the kind.
LEMMA CreateComparisonSessionStep ==
    ASSUME IInv, NEW t \in Threads, NEW o \in Orgs, NEW c \in Sessions, NEW k \in Kinds \cup {None},
           CreateComparisonSession(t, o, c, k)
    PROVE  IInv'
<1>1. PICK s : s = [IdleThread EXCEPT !.pc = "session", !.org = o, !.session = c, !.kind = k]
  OBVIOUS
<1>2. /\ thread[t].pc = "idle" /\ VisibleTo(k, o)
      /\ thread' = [thread EXCEPT ![t] = s]
      /\ UNCHANGED <<owner, doc, about, members, objects, history>>
  BY <1>1 DEF CreateComparisonSession, Become
<1>3. s \in Thread /\ s.pc = "session" /\ s.org = o /\ s.session = c /\ s.kind = k
  BY <1>1 DEF IdleThread, Thread, Pcs
<1>4. ThreadOK(s) /\ HeldBy(s)
  BY <1>2, <1>3 DEF ThreadOK, OnDocument, OnSession, HeldBy, Holding, New, VisibleTo
<1> QED
  BY <1>2, <1>3, <1>4, ReadStep DEF Holding, New

\* AddDocumentToSession and RemoveDocumentFromSession begin with the session.
LEMMA SessionRequestStep ==
    ASSUME IInv, NEW t \in Threads, NEW o \in Orgs, NEW c \in Sessions, NEW d \in Docs,
           NEW pc \in OnSession, SessionRequest(t, o, c, d, pc)
    PROVE  IInv'
<1>1. PICK s : s = [IdleThread EXCEPT !.pc = pc, !.org = o, !.session = c, !.doc = d]
  OBVIOUS
<1>2. /\ thread[t].pc = "idle" /\ owner[c] = o
      /\ thread' = [thread EXCEPT ![t] = s]
      /\ UNCHANGED <<owner, doc, about, members, objects, history>>
  BY <1>1 DEF SessionRequest, Become
<1>3. s \in Thread /\ s.pc = pc /\ s.org = o /\ s.session = c /\ s.doc = d
  BY <1>1 DEF IdleThread, Thread, Pcs, OnSession
<1>4. ThreadOK(s) /\ HeldBy(s)
  BY <1>2, <1>3 DEF ThreadOK, OnDocument, OnSession, HeldBy, Holding, New
<1> QED
  BY <1>2, <1>3, <1>4, ReadStep DEF Holding, New, OnSession

-----------------------------------------------------------------------------
(* The steps of a handler *)

\* Goto changes the place of a handler and nothing else of it.
LEMMA GotoThread ==
    ASSUME IInv, NEW t \in Threads, NEW pc \in Pcs, Goto(t, pc)
    PROVE  \E s \in Thread :
               /\ thread' = [thread EXCEPT ![t] = s]
               /\ s.pc = pc /\ s.org = thread[t].org /\ s.doc = thread[t].doc
               /\ s.bundle = thread[t].bundle
<1>1. thread \in [Threads -> Thread] /\ thread[t] \in Thread
  BY DEF IInv, TypeOK
<1>2. PICK s : s = [thread[t] EXCEPT !.pc = pc]
  OBVIOUS
<1>3. s \in Thread /\ s.pc = pc /\ s.org = thread[t].org /\ s.doc = thread[t].doc /\ s.bundle = thread[t].bundle
  BY <1>1, <1>2 DEF Thread
<1>4. thread' = [thread EXCEPT ![t] = s]
  BY <1>1, <1>2 DEF Goto
<1> QED
  BY <1>3, <1>4

\* A handler in the course of making a document.
LEMMA HoldingThread ==
    ASSUME IInv, NEW t \in Threads, thread[t].pc \in Holding
    PROVE  /\ thread[t].doc \in Docs /\ thread[t].doc \in Ids /\ thread[t].org \in Orgs
           /\ HeldBy(thread[t])
           /\ \A u \in Threads \ {t} : thread[u].pc \in Holding => thread[u].doc # thread[t].doc
           /\ \A u \in Threads \ {t} : thread[u].pc \in Holding => thread[u].doc \in Docs
<1>1. HeldBy(thread[t]) /\ \A u \in Threads : HeldBy(thread[u])
  BY DEF IInv, Held
<1>2. thread[t].doc \in Docs /\ \A u \in Threads \ {t} : thread[u].pc \in Holding => thread[u].doc \in Docs
  BY <1>1 DEF HeldBy
<1>3. thread[t].org \in Orgs
  BY DEF IInv, ThreadsOK, ThreadOK, Holding, New
<1>4. \A u \in Threads \ {t} : thread[u].pc \in Holding => thread[u].doc # thread[t].doc
  BY DEF IInv, Held
<1> QED
  BY <1>1, <1>2, <1>3, <1>4 DEF Ids

\* PutObject stores the file and the INSERT is next.
LEMMA UploadStep ==
    ASSUME IInv, NEW t \in Threads, Upload(t)
    PROVE  IInv'
<1>1. /\ thread[t].pc = "upload" /\ objects' = objects \cup {thread[t].doc}
      /\ UNCHANGED <<owner, doc, about, members, faults, lost, leaked>>
  BY DEF Upload, history
<1>2. PICK s \in Thread : /\ thread' = [thread EXCEPT ![t] = s] /\ s.pc = "insertUpload"
                          /\ s.org = thread[t].org /\ s.doc = thread[t].doc
  BY GotoThread DEF Upload, Pcs
<1>3. /\ thread[t].doc \in Docs /\ thread[t].doc \in Ids /\ thread[t].org \in Orgs
      /\ HeldBy(thread[t])
  BY <1>1, HoldingThread DEF Holding, New
<1>4. Moves /\ TablesOK'
  BY <1>1, NoWrite DEF rows
<1>5. TypeOK'
  BY <1>1, <1>2, <1>3 DEF IInv, TypeOK
<1>6. ThreadOK(s)'
  BY <1>2, <1>3 DEF ThreadOK, OnDocument, OnSession
<1>7. HeldBy(s)'
  BY <1>1, <1>2, <1>3 DEF HeldBy, Holding, New
<1> QED
  BY <1>1, <1>2, <1>4, <1>5, <1>6, <1>7, Assemble DEF Holding, New, Live

\* PutObject stores the file and the handler has no key to clean up with.
LEMMA UploadAnswerLostStep ==
    ASSUME IInv, NEW t \in Threads, UploadAnswerLost(t)
    PROVE  IInv'
<1>1. /\ thread[t].pc = "upload" /\ objects' = objects \cup {thread[t].doc}
      /\ leaked' = leaked \cup {thread[t].doc}
      /\ faults > 0 /\ faults' = faults - 1
      /\ thread' = [thread EXCEPT ![t] = IdleThread]
      /\ UNCHANGED <<owner, doc, about, members, lost>>
  BY DEF UploadAnswerLost, Finish, Become
<1>2. thread[t].doc \in Docs
  BY <1>1, HoldingThread DEF Holding, New
<1>3. Moves /\ TablesOK'
  BY <1>1, NoWrite DEF rows
<1>4. TypeOK'
  BY <1>1, <1>2, IdleOK DEF IInv, TypeOK
<1> QED
  BY <1>1, <1>3, <1>4, IdleOK, Assemble DEF Holding, New, Live

\* The row of a new document is stored, whether its handler learns of it or not.
LEMMA CreateStep ==
    ASSUME IInv, NEW t \in Threads, Create(t) \/ CreateAnswerLost(t)
    PROVE  IInv'
<1> DEFINE d == thread[t].doc
           o == thread[t].org
           new == NewDocument(t)
<1>1. /\ thread[t].pc \in {"insert", "insertUpload"}
      /\ StoreDocument(d, new, o)
      /\ UNCHANGED <<about, members, objects, leaked>>
      /\ lost \subseteq lost' /\ lost' \subseteq lost \cup {d} /\ faults' \in Nat
  BY DEF Create, CreateAnswerLost, StoreDocument, history, IInv, TypeOK
<1>2. /\ d \in Docs /\ d \in Ids /\ o \in Orgs /\ HeldBy(thread[t])
      /\ \A u \in Threads \ {t} : thread[u].pc \in Holding => thread[u].doc # d /\ thread[u].doc \in Docs
  BY <1>1, HoldingThread DEF Holding, New
<1>3. thread[t] \in Thread
  BY DEF IInv, TypeOK
<1>4. /\ new \in Document /\ new.parent = None /\ new.bundle = None
      /\ new.uploaded = (thread[t].pc = "insertUpload")
  <2>1. (thread[t].pc = "insertUpload") \in BOOLEAN
    OBVIOUS
  <2> QED
    BY <1>3, <2>1 DEF NewDocument, NoDocument, Document, Thread
<1>5. owner[d] = "unused" /\ (thread[t].pc = "insertUpload" => d \in objects)
  BY <1>1, <1>2 DEF HeldBy, Holding, New
<1> HIDE DEF d, o, new
<1>6. /\ owner' \in [Ids -> Orgs \cup {"unused", "system", "deleted"}]
      /\ doc' \in [Docs -> Document]
      /\ doc'[d] = new /\ owner'[d] = o
      /\ \A x \in Ids : x # d => owner'[x] = owner[x]
      /\ \A x \in Docs : x # d => doc'[x] = doc[x]
      /\ Moves /\ TablesOK'
  BY <1>1, <1>2, <1>4, <1>5, StoreWrite
<1>7. PICK s \in Thread :
        /\ thread' = [thread EXCEPT ![t] = s]
        /\ \/ s = IdleThread
           \/ s.pc = "cleanup" /\ s.doc = d /\ s.org = o /\ d \in lost'
  <2>1. CASE Finish(t)
    BY <2>1, IdleOK DEF Finish, Become
  <2>2. CASE Goto(t, "cleanup") /\ lost' = lost \cup {d}
    <3>1. PICK s \in Thread : /\ thread' = [thread EXCEPT ![t] = s] /\ s.pc = "cleanup"
                              /\ s.org = thread[t].org /\ s.doc = thread[t].doc
      BY <2>2, GotoThread DEF Pcs
    <3> QED
      BY <2>2, <3>1 DEF d, o
  <2> QED
    BY <2>1, <2>2 DEF Create, CreateAnswerLost, AfterError, d
<1>8. ThreadOK(s)'
  <2>1. CASE s = IdleThread
    BY <2>1, IdleOK
  <2>2. CASE s.pc = "cleanup" /\ s.org = o
    BY <1>2, <2>2 DEF ThreadOK, OnDocument, OnSession
  <2> QED
    BY <1>7, <2>1, <2>2
<1>9. HeldBy(s)'
  <2>1. CASE s = IdleThread
    BY <2>1, IdleOK
  <2>2. CASE s.pc = "cleanup" /\ s.doc = d /\ d \in lost'
    BY <1>2, <2>2 DEF HeldBy, New, Holding
  <2> QED
    BY <1>7, <2>1, <2>2
<1>10. TypeOK'
  BY <1>1, <1>2, <1>6, <1>7 DEF IInv, TypeOK
<1>11. s.pc \in Holding => thread[t].pc \in Holding /\ s.doc = thread[t].doc
  BY <1>1, <1>7, IdleOK DEF Holding, New, d
<1>12. \A u \in Threads \ {t} : thread[u].pc \in Holding =>
          /\ owner[thread[u].doc] = "unused" => owner'[thread[u].doc] = "unused"
          /\ thread[u].doc \in objects => thread[u].doc \in objects'
  BY <1>1, <1>2, <1>6 DEF Ids
<1>13. owner'[thread[t].doc] # "unused"
  BY <1>2, <1>6 DEF d
<1>14. \A x \in Docs : Live(x)' /\ doc'[x].uploaded =>
          (Live(x) /\ doc[x].uploaded) \/ x \in objects' \/ x \in lost'
  <2> SUFFICES ASSUME NEW x \in Docs, Live(x)', doc'[x].uploaded
               PROVE  (Live(x) /\ doc[x].uploaded) \/ x \in objects'
    OBVIOUS
  <2>1. CASE x = d
    BY <1>1, <1>4, <1>5, <1>6, <2>1
  <2>2. CASE x # d
    BY <1>6, <2>2 DEF Live, Ids
  <2> QED
    BY <2>1, <2>2
<1> QED
  BY <1>1, <1>6, <1>7, <1>8, <1>9, <1>10, <1>11, <1>12, <1>13, <1>14, Assemble

\* A refused row leads to the cleanup of its object.
LEMMA CreateRefusedStep ==
    ASSUME IInv, NEW t \in Threads, CreateRefused(t)
    PROVE  IInv'
<1>1. /\ thread[t].pc \in {"insert", "insertUpload"}
      /\ UNCHANGED <<owner, doc, about, members, objects, history>>
  BY DEF CreateRefused
<1>2. CASE thread[t].pc = "insert"
  <2>1. thread' = [thread EXCEPT ![t] = IdleThread]
    BY <1>2 DEF CreateRefused, AfterError, Finish, Become
  <2> QED
    BY <1>1, <1>2, <2>1, IdleOK, ReadStep DEF Holding, New
<1>3. CASE thread[t].pc = "insertUpload"
  <2>1. PICK s \in Thread : /\ thread' = [thread EXCEPT ![t] = s] /\ s.pc = "cleanup"
                            /\ s.org = thread[t].org /\ s.doc = thread[t].doc
    BY <1>3, GotoThread DEF CreateRefused, AfterError, Pcs
  <2>2. thread[t].doc \in Docs /\ thread[t].org \in Orgs /\ HeldBy(thread[t])
    BY <1>3, HoldingThread DEF Holding, New
  <2>3. owner[thread[t].doc] = "unused"
    BY <1>3, <2>2 DEF HeldBy, Holding, New
  <2>4. ThreadOK(s) /\ HeldBy(s)
    BY <2>1, <2>2, <2>3 DEF ThreadOK, OnDocument, OnSession, HeldBy, New, Live
  <2> QED
    BY <1>1, <1>3, <2>1, <2>4, ReadStep DEF Holding, New
<1> QED
  BY <1>1, <1>2, <1>3

\* The cleanup removes the object of a row that was not stored.
LEMMA CleanupStep ==
    ASSUME IInv, NEW t \in Threads, Cleanup(t)
    PROVE  IInv'
<1>1. /\ thread[t].pc = "cleanup" /\ objects' = objects \ {thread[t].doc}
      /\ thread' = [thread EXCEPT ![t] = IdleThread]
      /\ UNCHANGED <<owner, doc, about, members, faults, lost, leaked>>
  BY DEF Cleanup, Finish, Become, history
<1>2. /\ thread[t].doc \in Docs /\ HeldBy(thread[t])
      /\ \A u \in Threads \ {t} : thread[u].pc \in Holding => thread[u].doc # thread[t].doc
  BY <1>1, HoldingThread DEF Holding, New
<1>3. Moves /\ TablesOK'
  BY <1>1, NoWrite DEF rows
<1>4. TypeOK'
  BY <1>1, IdleOK DEF IInv, TypeOK
<1>5. \A k \in objects \ objects' : ~Live(k)' \/ k \in lost'
  BY <1>1, <1>2 DEF HeldBy, Holding, New, Live
<1> QED
  BY <1>1, <1>2, <1>3, <1>4, <1>5, IdleOK, Assemble DEF Holding, New, Live

\* A call fails, or the process stops and the object it held is leaked.
LEMMA FailStep ==
    ASSUME IInv, NEW t \in Threads, Fail(t)
    PROVE  IInv'
<1>1. /\ faults' \in Nat
      /\ UNCHANGED <<owner, doc, about, members, objects, lost>>
  BY DEF Fail, IInv, TypeOK
<1>2. Moves /\ TablesOK'
  BY <1>1, NoWrite DEF rows
<1>3. CASE thread[t].pc = "insertUpload" /\ Goto(t, "cleanup") /\ UNCHANGED leaked
  <2>1. PICK s \in Thread : /\ thread' = [thread EXCEPT ![t] = s] /\ s.pc = "cleanup"
                            /\ s.org = thread[t].org /\ s.doc = thread[t].doc
    BY <1>3, GotoThread DEF Pcs
  <2>2. thread[t].doc \in Docs /\ thread[t].org \in Orgs /\ HeldBy(thread[t])
    BY <1>3, HoldingThread DEF Holding, New
  <2>3. owner[thread[t].doc] = "unused"
    BY <1>3, <2>2 DEF HeldBy, Holding, New
  <2>4. ThreadOK(s)' /\ HeldBy(s)'
    BY <1>1, <2>1, <2>2, <2>3 DEF ThreadOK, OnDocument, OnSession, HeldBy, New, Live
  <2>5. TypeOK'
    BY <1>1, <1>3, <2>1 DEF IInv, TypeOK
  <2> QED
    BY <1>1, <1>2, <1>3, <2>1, <2>4, <2>5, Assemble DEF Holding, New, Live
<1>4. CASE /\ thread' = [thread EXCEPT ![t] = IdleThread]
           /\ leaked' = IF thread[t].pc \in {"insertUpload", "cleanup"}
                        THEN leaked \cup HeldObject(t) ELSE leaked
  <2>1. leaked' \subseteq Docs /\ leaked \subseteq leaked'
    BY <1>4 DEF IInv, TypeOK, HeldObject
  <2>2. TypeOK'
    BY <1>1, <1>4, <2>1, IdleOK DEF IInv, TypeOK
  <2>3. thread[t].pc \in {"insertUpload", "cleanup"} =>
          thread[t].doc \notin objects' \/ thread[t].doc \in leaked'
    BY <1>1, <1>4 DEF HeldObject
  <2> QED
    BY <1>1, <1>2, <1>4, <2>1, <2>2, <2>3, IdleOK, Assemble DEF Holding, New, Live
<1> QED
  BY <1>3, <1>4 DEF Fail, Finish, Become

\* The checks of UpdateMeta: the role, and that the bundle is a root document.
LEMMA MetaCheckStep ==
    ASSUME IInv, NEW t \in Threads, UpdateMetaRole(t) \/ UpdateMetaBundle(t)
    PROVE  IInv'
<1>1. /\ thread[t].pc \in {"metaRole", "metaBundle"}
      /\ UNCHANGED <<owner, doc, about, members, objects, history>>
  BY DEF UpdateMetaRole, UpdateMetaBundle, MetaCheck
<1>2. thread[t] \in Thread /\ ThreadOK(thread[t])
  BY DEF IInv, TypeOK, ThreadsOK
<1>3. thread[t].org \in Orgs /\ thread[t].doc \in Docs
  BY <1>1, <1>2 DEF ThreadOK, OnDocument
<1>4. CASE Finish(t)
  <2>1. thread' = [thread EXCEPT ![t] = IdleThread]
    BY <1>4 DEF Finish, Become
  <2> QED
    BY <1>1, <2>1, IdleOK, ReadStep DEF Holding, New
<1>5. CASE Goto(t, "metaBundle")
  <2>1. PICK s \in Thread : /\ thread' = [thread EXCEPT ![t] = s] /\ s.pc = "metaBundle"
                            /\ s.org = thread[t].org /\ s.doc = thread[t].doc
    BY <1>5, GotoThread DEF Pcs
  <2>2. ThreadOK(s) /\ HeldBy(s)
    BY <1>3, <2>1 DEF ThreadOK, OnDocument, OnSession, HeldBy, Holding, New
  <2> QED
    BY <1>1, <2>1, <2>2, ReadStep DEF Holding, New
<1>6. CASE /\ Goto(t, "metaUpdate") /\ InOrg(thread[t].bundle, thread[t].org)
           /\ thread[t].bundle # None => doc[thread[t].bundle].parent = None
  <2>1. PICK s \in Thread : /\ thread' = [thread EXCEPT ![t] = s] /\ s.pc = "metaUpdate"
                            /\ s.org = thread[t].org /\ s.doc = thread[t].doc
                            /\ s.bundle = thread[t].bundle
    BY <1>6, GotoThread DEF Pcs
  <2>2. s.bundle # None => owner[s.bundle] # "unused" /\ doc[s.bundle].parent = None
    BY <1>3, <1>6, <2>1 DEF InOrg
  <2>3. ThreadOK(s) /\ HeldBy(s)
    BY <1>3, <2>1, <2>2 DEF ThreadOK, OnDocument, OnSession, HeldBy, Holding, New
  <2> QED
    BY <1>1, <2>1, <2>3, ReadStep DEF Holding, New
<1> QED
  BY <1>4, <1>5, <1>6 DEF UpdateMetaRole, UpdateMetaBundle, MetaCheck

\* UpdateMeta writes the references of a document.
LEMMA UpdateMetaStep ==
    ASSUME IInv, NEW t \in Threads, UpdateMeta(t)
    PROVE  IInv'
<1>1. /\ thread[t].pc = "metaUpdate" /\ thread' = [thread EXCEPT ![t] = IdleThread]
      /\ UNCHANGED <<owner, about, members, objects, faults, lost, leaked>>
  BY DEF UpdateMeta, Finish, Become, history
<1>2. doc' \in [Docs -> Document] /\ Moves /\ TablesOK' /\ \A d \in Docs : doc'[d].uploaded = doc[d].uploaded
  BY MetaWrite
<1>3. TypeOK'
  BY <1>1, <1>2, IdleOK DEF IInv, TypeOK
<1> QED
  BY <1>1, <1>2, <1>3, IdleOK, Assemble DEF Holding, New, Live

\* The artifact is stored on the site its source still has, or refused.
LEMMA CreateArtifactDocumentStep ==
    ASSUME IInv, NEW t \in Threads, CreateArtifactDocument(t)
    PROVE  IInv'
<1>1. /\ thread[t].pc = "artifact" /\ thread' = [thread EXCEPT ![t] = IdleThread]
      /\ UNCHANGED <<objects, faults, lost, leaked>>
  BY DEF CreateArtifactDocument, Finish, Become, history
<1>2. CASE UNCHANGED rows
  <2>1. UNCHANGED <<owner, doc, about, members>>
    BY <1>2 DEF rows
  <2> QED
    BY <1>1, <2>1, IdleOK, ReadStep DEF Holding, New, history
<1>3. CASE /\ ForeignKeys(ArtifactRow(t)) /\ check_document_org_isolation(ArtifactRow(t), thread[t].org)
           /\ ArtifactsOf(thread[t].doc) = {}
           /\ \E a \in Docs : Fresh(a) /\ StoreDocument(a, ArtifactRow(t), thread[t].org)
  <2>1. PICK a \in Docs : Fresh(a) /\ StoreDocument(a, ArtifactRow(t), thread[t].org)
    BY <1>3
  <2>2. thread[t] \in Thread /\ ThreadOK(thread[t])
    BY DEF IInv, TypeOK, ThreadsOK
  <2>3. thread[t].org \in Orgs /\ thread[t].doc \in Docs
    BY <1>1, <2>2 DEF ThreadOK, OnDocument
  <2>4. PICK new : new = ArtifactRow(t)
    OBVIOUS
  <2>5. /\ new \in Document /\ new.site = thread[t].site /\ new.parent = thread[t].doc
        /\ new.bundle = None /\ new.uploaded = FALSE
    BY <2>2, <2>3, <2>4 DEF ArtifactRow, NoDocument, Document, Thread
  <2>6. InOrg(new.site, thread[t].org) /\ InOrg(new.parent, thread[t].org)
    BY <1>3, <2>4 DEF check_document_org_isolation
  <2>7. thread[t].doc # None /\ owner[thread[t].doc] = thread[t].org
    BY <2>3, <2>5, <2>6 DEF InOrg, Ids
  <2>8. new.site = doc[new.parent].site
    <3>1. \/ owner[thread[t].doc] = "deleted"
          \/ doc[thread[t].doc].site = thread[t].site
          \/ thread[t].site # None /\ owner[thread[t].site] = "deleted"
      BY <1>1, <2>2 DEF ThreadOK
    <3> QED
      BY <2>3, <2>5, <2>6, <2>7, <3>1 DEF InOrg
  <2>9. owner[a] = "unused" /\ \A u \in Threads : thread[u].pc \in Holding => thread[u].doc # a
    BY <2>1 DEF Fresh, Holding, New
  <2>10. StoreDocument(a, new, thread[t].org) /\ ArtifactsOf(new.parent) = {}
    BY <1>3, <2>1, <2>4, <2>5
  <2>11. /\ owner' \in [Ids -> Orgs \cup {"unused", "system", "deleted"}]
         /\ doc' \in [Docs -> Document]
         /\ doc'[a] = new
         /\ \A x \in Ids : x # a => owner'[x] = owner[x]
         /\ \A x \in Docs : x # a => doc'[x] = doc[x]
         /\ Moves /\ TablesOK'
    BY <1>1, <2>3, <2>5, <2>8, <2>9, <2>10, StoreWrite
  <2>12. UNCHANGED <<about, members>>
    BY <2>1 DEF StoreDocument
  <2>13. TypeOK'
    BY <1>1, <2>11, <2>12, IdleOK DEF IInv, TypeOK
  <2>14. \A u \in Threads \ {t} : thread[u].pc \in Holding /\ owner[thread[u].doc] = "unused" =>
            owner'[thread[u].doc] = "unused"
    <3> SUFFICES ASSUME NEW u \in Threads, thread[u].pc \in Holding, owner[thread[u].doc] = "unused"
                 PROVE  owner'[thread[u].doc] = "unused"
      OBVIOUS
    <3>1. thread[u].doc \in Ids /\ thread[u].doc # a
      BY <2>9, HoldingThread
    <3> QED
      BY <2>11, <3>1
  <2>15. \A x \in Docs : Live(x)' /\ doc'[x].uploaded => Live(x) /\ doc[x].uploaded
    <3> SUFFICES ASSUME NEW x \in Docs, Live(x)', doc'[x].uploaded PROVE Live(x) /\ doc[x].uploaded
      OBVIOUS
    <3>1. x # a
      BY <2>5, <2>11
    <3> QED
      BY <2>11, <3>1 DEF Live, Ids
  <2> QED
    BY <1>1, <2>11, <2>13, <2>14, <2>15, IdleOK, Assemble DEF Holding, New
<1> QED
  BY <1>2, <1>3 DEF CreateArtifactDocument

\* A session is stored only if its kind is still there, and a kind that is
\* still there is still visible to the tenant.
LEMMA InsertComparisonSessionStep ==
    ASSUME IInv, NEW t \in Threads, InsertComparisonSession(t)
    PROVE  IInv'
<1>1. /\ thread[t].pc = "session" /\ thread' = [thread EXCEPT ![t] = IdleThread]
      /\ UNCHANGED <<doc, members, objects, faults, lost, leaked>>
  BY DEF InsertComparisonSession, Finish, Become, history
<1>2. CASE UNCHANGED <<owner, about>>
  BY <1>1, <1>2, IdleOK, ReadStep DEF Holding, New, history
<1>3. CASE /\ owner[thread[t].session] = "unused" /\ (thread[t].kind # None => Live(thread[t].kind))
           /\ owner' = [owner EXCEPT ![thread[t].session] = thread[t].org]
           /\ about' = [about EXCEPT ![thread[t].session] = thread[t].kind]
  <2>1. thread[t] \in Thread /\ ThreadOK(thread[t])
    BY DEF IInv, TypeOK, ThreadsOK
  <2>2. /\ thread[t].org \in Orgs /\ thread[t].session \in Sessions
        /\ thread[t].kind # None => owner[thread[t].kind] \in {thread[t].org, "system", "deleted"}
    BY <1>1, <2>1 DEF ThreadOK
  <2>3. thread[t].session \in Ids \ Docs /\ thread[t].kind \in Kinds \cup {None}
    BY <2>1, <2>2 DEF Ids, Thread
  <2>4. VisibleTo(thread[t].kind, thread[t].org)
    BY <1>3, <2>2 DEF VisibleTo, Live
  <2>5. /\ owner' \in [Ids -> Orgs \cup {"unused", "system", "deleted"}]
        /\ about' \in [Sessions -> Kinds \cup {None}]
        /\ Moves /\ TablesOK'
    BY <1>1, <1>3, <2>2, <2>3, <2>4, CreateWrite
  <2>6. TypeOK'
    BY <1>1, <2>5, IdleOK DEF IInv, TypeOK
  <2>7. \A d \in Docs : owner'[d] = owner[d]
    BY <1>3, <2>3 DEF IInv, TypeOK, Ids
  <2>8. \A u \in Threads \ {t} : thread[u].pc \in Holding /\ owner[thread[u].doc] = "unused" =>
           owner'[thread[u].doc] = "unused"
    BY <2>7, HoldingThread
  <2>9. \A d \in Docs : Live(d)' => Live(d)
    BY <2>7 DEF Live
  <2> QED
    BY <1>1, <2>5, <2>6, <2>8, <2>9, IdleOK, Assemble DEF Holding, New
<1> QED
  BY <1>2, <1>3 DEF InsertComparisonSession

\* The members of a session are documents of the session's tenant.
LEMMA MembersStep ==
    ASSUME IInv, NEW t \in Threads, AddDocument(t) \/ RemoveDocument(t)
    PROVE  IInv'
<1>1. /\ thread[t].pc \in OnSession /\ thread' = [thread EXCEPT ![t] = IdleThread]
      /\ UNCHANGED <<owner, doc, about, objects, faults, lost, leaked>>
  BY DEF AddDocument, RemoveDocument, Finish, Become, history, OnSession
<1>2. ThreadOK(thread[t])
  BY DEF IInv, ThreadsOK
<1>3. /\ thread[t].doc \in Docs /\ thread[t].session \in Sessions /\ thread[t].org \in Orgs
      /\ owner[thread[t].session] \in {thread[t].org, "deleted"}
  BY <1>1, <1>2 DEF ThreadOK, OnDocument, OnSession
<1>4. \A m \in members' : m \in members
                         \/ (m \in Sessions \X Docs /\ Live(m[1]) /\ owner[m[2]] = owner[m[1]])
  BY <1>3 DEF AddDocument, RemoveDocument, Live
<1>5. members' \subseteq Sessions \X Docs /\ Moves /\ TablesOK'
  BY <1>1, <1>4, MembersWrite
<1>6. TypeOK'
  BY <1>1, <1>5, IdleOK DEF IInv, TypeOK
<1> QED
  BY <1>1, <1>5, <1>6, IdleOK, Assemble DEF Holding, New, OnSession, Live

-----------------------------------------------------------------------------
(* The requests that are one statement *)

\* The rows a cascade takes away are rows, and no row is left that was derived
\* from one of them.
LEMMA DerivedRows ==
    ASSUME IInv, NEW d \in Docs, owner[d] # "unused"
    PROVE  /\ Derived(d) \subseteq Docs
           /\ \A x \in Derived(d) : owner[x] # "unused"
           /\ \A x \in Docs : doc[x].parent \in Derived(d) => x \in Derived(d)
<1>1. Derived(d) \subseteq Docs
  BY DEF Derived
<1>2. \A x \in Derived(d) : owner[x] # "unused"
  <2> DEFINE S == {y \in Docs : owner[y] # "unused"}
  <2>1. d \in S /\ S \in SUBSET Docs
    OBVIOUS
  <2>2. \A y \in Docs : doc[y].parent \in S => y \in S
    <3> SUFFICES ASSUME NEW y \in Docs, doc[y].parent \in Docs PROVE owner[y] # "unused"
      OBVIOUS
    <3> QED
      BY DEF IInv, TablesOK, UnusedRows, Ids
  <2> HIDE DEF S
  <2>3. \A x \in Derived(d) : x \in S
    BY <2>1, <2>2 DEF Derived
  <2> QED
    BY <2>3 DEF S
<1>3. \A x \in Docs : doc[x].parent \in Derived(d) => x \in Derived(d)
  <2> SUFFICES ASSUME NEW x \in Docs, doc[x].parent \in Derived(d),
                      NEW S \in SUBSET Docs, d \in S, \A y \in Docs : doc[y].parent \in S => y \in S
               PROVE  x \in S
    BY DEF Derived
  <2>1. doc[x].parent \in S
    BY DEF Derived
  <2> QED
    BY <2>1
<1> QED
  BY <1>1, <1>2, <1>3

\* A statement that deletes rows.
LEMMA DeleteStep ==
    ASSUME IInv, NEW gone \in SUBSET Ids, \A x \in gone : owner[x] # "unused",
           \A d \in Docs : doc[d].parent \in gone => d \in gone,
           DeleteRows(gone), UNCHANGED <<objects, thread, history>>
    PROVE  IInv'
<1>1. UNCHANGED <<objects, thread, faults, lost, leaked>>
  BY DEF history
<1>2. /\ owner' \in [Ids -> Orgs \cup {"unused", "system", "deleted"}]
      /\ doc' \in [Docs -> Document]
      /\ about' \in [Sessions -> Kinds \cup {None}]
      /\ members' \subseteq members
      /\ \A d \in Docs : doc'[d].uploaded => doc[d].uploaded
      /\ Moves /\ TablesOK'
  BY <1>1, DeleteWrite
<1>3. TypeOK'
  BY <1>1, <1>2 DEF IInv, TypeOK
<1>4. \A d \in Docs : owner[d] = "unused" => owner'[d] = "unused"
  BY DEF DeleteRows, Ids
<1> QED
  BY <1>1, <1>2, <1>3, <1>4, AssembleEdit

\* DELETE /documents/:id takes the artifacts along.
LEMMA DeleteDocumentStep ==
    ASSUME IInv, NEW d \in Docs, NEW o \in Orgs, DeleteDocument(d, o)
    PROVE  IInv'
<1>1. owner[d] # "unused" /\ DeleteRows(Derived(d)) /\ UNCHANGED <<objects, thread, history>>
  BY DEF DeleteDocument
<1>2. PICK gone : gone = Derived(d)
  OBVIOUS
<1>3. /\ gone \in SUBSET Ids /\ \A x \in gone : owner[x] # "unused"
      /\ \A x \in Docs : doc[x].parent \in gone => x \in gone
  BY <1>1, <1>2, DerivedRows DEF Ids
<1> QED
  BY <1>1, <1>2, <1>3, DeleteStep

\* DELETE of a site, a kind, a role or a session.
LEMMA DeleteRowStep ==
    ASSUME IInv, NEW x \in Ids \ Docs, NEW o \in Orgs, DeleteRow(x, o)
    PROVE  IInv'
<1>1. owner[x] # "unused" /\ DeleteRows({x}) /\ UNCHANGED <<objects, thread, history>>
  BY DEF DeleteRow
<1>2. \A d \in Docs : doc[d].parent \notin {x}
  BY DEF IInv, TypeOK, Document
<1> QED
  BY <1>1, <1>2, DeleteStep

\* A site, a kind or a role is created.
LEMMA CreateRowStep ==
    ASSUME IInv, NEW x \in Sites \cup Entries, NEW o \in Orgs, CreateRow(x, o)
    PROVE  IInv'
<1>1. /\ owner[x] = "unused" /\ owner' = [owner EXCEPT ![x] = o]
      /\ UNCHANGED <<doc, about, members, objects, thread, faults, lost, leaked>>
  BY DEF CreateRow, history
<1>2. x \in Ids \ Docs /\ x \notin Sessions
  BY DEF Ids
<1>3. VisibleTo(None, o)
  BY DEF VisibleTo
<1>4. about' = IF x \in Sessions THEN [about EXCEPT ![x] = None] ELSE about
  BY <1>1, <1>2
<1>5. owner' \in [Ids -> Orgs \cup {"unused", "system", "deleted"}] /\ Moves /\ TablesOK'
  BY <1>1, <1>2, <1>3, <1>4, CreateWrite
<1>6. TypeOK'
  BY <1>1, <1>5 DEF IInv, TypeOK
<1>7. \A d \in Docs : owner'[d] = owner[d]
  BY <1>1, <1>2 DEF IInv, TypeOK, Ids
<1> QED
  BY <1>1, <1>5, <1>6, <1>7, AssembleEdit

-----------------------------------------------------------------------------
(* The invariant *)

\* At first there are only directory entries of the installation.
LEMMA InitIInv == Init => IInv
<1> SUFFICES ASSUME Init PROVE IInv
  OBVIOUS
<1>1. PICK system \in SUBSET Entries :
        owner = [x \in Ids |-> IF x \in system THEN "system" ELSE "unused"]
  BY DEF Init
<1>2. NoDocument \in Document /\ NoDocument.parent = None
  BY DEF NoDocument, Document
<1>3. owner \in [Ids -> Orgs \cup {"unused", "system", "deleted"}]
  BY <1>1
<1>4. TypeOK
  BY <1>2, <1>3, IdleOK DEF Init, TypeOK
<1>5. \A x \in Docs \cup Sites \cup Sessions : x \in Ids /\ owner[x] = "unused"
  BY <1>1 DEF Ids
<1>6. \A x \in Docs \cup Sessions : ~Live(x)
  BY <1>5 DEF Live
<1>7. TablesOK
  <2>1. SystemRows /\ UnusedRows
    BY <1>2, <1>5 DEF Init, SystemRows, UnusedRows
  <2>2. SameTenant
    BY <1>6 DEF Init, SameTenant
  <2>3. Artifacts /\ BundleIsRoot
    BY <1>6 DEF Artifacts, BundleIsRoot
  <2> QED
    BY <2>1, <2>2, <2>3 DEF TablesOK
<1>8. \A t \in Threads : thread[t] = IdleThread
  BY DEF Init
<1>9. ThreadsOK
  BY <1>8, IdleOK DEF ThreadsOK
<1>10. Held
  BY <1>8, IdleOK DEF Held, Holding, New
<1>11. NoOrphanedUpload /\ UploadedHasObject
  BY <1>6 DEF Init, NoOrphanedUpload, UploadedHasObject
<1> QED
  BY <1>4, <1>7, <1>9, <1>10, <1>11 DEF IInv

\* Every step keeps the invariant.
LEMMA NextIInv == IInv /\ [Next]_vars => IInv'
<1> SUFFICES ASSUME IInv, [Next]_vars PROVE IInv'
  OBVIOUS
<1>1. CASE UNCHANGED vars
  <2>1. UNCHANGED <<owner, doc, about, members, objects, thread, faults, lost, leaked>>
    BY <1>1 DEF vars
  <2>2. Moves /\ TablesOK'
    BY <2>1, NoWrite DEF rows
  <2>3. TypeOK'
    BY <2>1 DEF IInv, TypeOK
  <2> QED
    BY <2>1, <2>2, <2>3, AssembleEdit
<1>2. ASSUME NEW t \in Threads, Handler(t) PROVE IInv'
  <2>1. CASE Upload(t) \/ UploadAnswerLost(t)
    BY <2>1, UploadStep, UploadAnswerLostStep
  <2>2. CASE Create(t) \/ CreateAnswerLost(t)
    BY <2>2, CreateStep
  <2>3. CASE CreateRefused(t) \/ Cleanup(t) \/ Fail(t)
    BY <2>3, CreateRefusedStep, CleanupStep, FailStep
  <2>4. CASE UpdateMetaRole(t) \/ UpdateMetaBundle(t)
    BY <2>4, MetaCheckStep
  <2>5. CASE UpdateMeta(t)
    BY <2>5, UpdateMetaStep
  <2>6. CASE CreateArtifactDocument(t)
    BY <2>6, CreateArtifactDocumentStep
  <2>7. CASE InsertComparisonSession(t)
    BY <2>7, InsertComparisonSessionStep
  <2>8. CASE AddDocument(t) \/ RemoveDocument(t)
    BY <2>8, MembersStep
  <2> QED
    BY <1>2, <2>1, <2>2, <2>3, <2>4, <2>5, <2>6, <2>7, <2>8 DEF Handler
<1>3. ASSUME NEW t \in Threads, NEW o \in Orgs, Request(t, o) PROVE IInv'
  <2>1. CASE \E d \in Docs, s \in Sites \cup {None} :
                CreateDocument(t, o, d, s) \/ UploadDocument(t, o, d, s)
    BY <2>1, CreateDocumentStep
  <2>2. CASE \E d \in Docs, k \in Kinds \cup {None}, r \in Roles \cup {None}, b \in Docs \cup {None} :
                UpdateDocumentMeta(t, o, d, k, r, b)
    BY <2>2, UpdateDocumentMetaStep
  <2>3. CASE \E c \in Sessions, k \in Kinds \cup {None} : CreateComparisonSession(t, o, c, k)
    BY <2>3, CreateComparisonSessionStep
  <2>4. CASE \E c \in Sessions, d \in Docs :
                AddDocumentToSession(t, o, c, d) \/ RemoveDocumentFromSession(t, o, c, d)
    BY <2>4, SessionRequestStep DEF AddDocumentToSession, RemoveDocumentFromSession, OnSession
  <2> QED
    BY <1>3, <2>1, <2>2, <2>3, <2>4 DEF Request
<1>4. ASSUME NEW t \in Threads, NEW d \in Docs, RegisterArtifacts(t, d) PROVE IInv'
  BY <1>4, RegisterArtifactsStep
<1>5. ASSUME NEW o \in Orgs, Edit(o) PROVE IInv'
  <2>1. Sites \subseteq Ids \ Docs /\ Kinds \subseteq Ids \ Docs /\ Roles \subseteq Ids \ Docs
        /\ Sessions \subseteq Ids \ Docs
    BY DEF Ids, Entries
  <2>2. CASE \E d \in Docs : DeleteDocument(d, o)
    BY <2>2, DeleteDocumentStep
  <2>3. CASE \E s \in Sites : CreateConstructionSite(s, o) \/ DeleteConstructionSite(s, o)
    BY <2>1, <2>3, CreateRowStep, DeleteRowStep DEF CreateConstructionSite, DeleteConstructionSite
  <2>4. CASE \E k \in Kinds : CreateContractKind(k, o) \/ DeleteContractKind(k, o)
    BY <2>1, <2>4, CreateRowStep, DeleteRowStep DEF CreateContractKind, DeleteContractKind, Entries
  <2>5. CASE \E r \in Roles : CreateFileRole(r, o) \/ DeleteFileRole(r, o)
    BY <2>1, <2>5, CreateRowStep, DeleteRowStep DEF CreateFileRole, DeleteFileRole, Entries
  <2>6. CASE \E c \in Sessions : DeleteComparisonSession(c, o)
    BY <2>1, <2>6, DeleteRowStep DEF DeleteComparisonSession
  <2> QED
    BY <1>5, <2>2, <2>3, <2>4, <2>5, <2>6 DEF Edit
<1> QED
  BY <1>1, <1>2, <1>3, <1>4, <1>5 DEF Next

\* The tables, the handlers and the object store stay consistent.
THEOREM Inductive == Spec => []IInv
<1>1. Init => IInv
  BY InitIInv
<1>2. IInv /\ [Next]_vars => IInv'
  BY NextIInv
<1> QED
  BY <1>1, <1>2, PTL DEF Spec

\* Every variable of the catalogue keeps its type.
THEOREM TypeCorrect == Spec => []TypeOK
<1>1. IInv => TypeOK
  BY DEF IInv
<1> QED
  BY <1>1, Inductive, PTL

\* Documents, artifacts, bundles and sessions refer only to rows of their own
\* tenant, though the handlers check and write in separate statements.
THEOREM TenantsApart == Spec => []SameTenant
<1>1. IInv => SameTenant
  BY DEF IInv, TablesOK
<1> QED
  BY <1>1, Inductive, PTL

\* UploadDocument leaves no object without a row, a handler or a fault.
THEOREM UploadsAccounted == Spec => []NoOrphanedUpload
<1>1. IInv => NoOrphanedUpload
  BY DEF IInv
<1> QED
  BY <1>1, Inductive, PTL

\* The cleanup of UploadDocument takes no file from a document unless the
\* INSERT took place behind its back.
THEOREM UploadsKept == Spec => []UploadedHasObject
<1>1. IInv => UploadedHasObject
  BY DEF IInv
<1> QED
  BY <1>1, Inductive, PTL

\* registerConvertArtifacts makes one artifact of a kind, on the source's site.
THEOREM ArtifactsFollow == Spec => []ArtifactFollowsSource
<1>1. IInv => ArtifactFollowsSource
  <2> SUFFICES ASSUME IInv, NEW d \in Docs, Live(d)
               PROVE  /\ Cardinality(ArtifactsOf(d)) <= 1
                      /\ \A a \in ArtifactsOf(d) : doc[a].site = doc[d].site /\ doc[a].bundle = None
    BY DEF ArtifactFollowsSource
  <2>1. /\ \A a, b \in ArtifactsOf(d) : a = b
        /\ \A a \in ArtifactsOf(d) : doc[a].site = doc[d].site /\ doc[a].bundle = None
    BY DEF IInv, TablesOK, Artifacts
  <2>2. CASE ArtifactsOf(d) = {}
    <3>1. Cardinality(ArtifactsOf(d)) = 0
      BY <2>2, FS_EmptySet
    <3> QED
      BY <2>1, <3>1
  <2>3. CASE ArtifactsOf(d) # {}
    <3>1. PICK a : a \in ArtifactsOf(d)
      BY <2>3
    <3>2. ArtifactsOf(d) = {a}
      BY <2>1, <3>1
    <3>3. Cardinality(ArtifactsOf(d)) = 1
      BY <3>2, FS_Singleton
    <3> QED
      BY <2>1, <3>3
  <2> QED
    BY <2>2, <2>3
<1> QED
  BY <1>1, Inductive, PTL

\* bundle_id never comes to point to an artifact, though UpdateMeta checks it
\* one query earlier.
THEOREM BundlesAreRoots == Spec => []BundleIsRoot
<1>1. IInv => BundleIsRoot
  BY DEF IInv, TablesOK
<1> QED
  BY <1>1, Inductive, PTL
=============================================================================
