------------------------------- MODULE Library --------------------------------
(***************************************************************************)
(* The folders of a project, its documents and their branches.  A request  *)
(* loads the tables, decides there what to write, and saves all of it in   *)
(* one transaction, whose statements the constraints of the tables check   *)
(* one after the other: two requests decide on the same tables and each of *)
(* them must still fit what the other has saved.                           *)
(*                                                                         *)
(* A path is a sequence of names and a name is its letters and their case. *)
(* Folders never change, so that a folder is known by its path.            *)
(***************************************************************************)
EXTENDS Workspace, SequencesExt, FiniteSets

CONSTANTS
    Documents,     \* identifiers of documents
    DocumentNames, \* what documents are called, but for the case
    Letters,       \* what folders and files are called, but for the case
    BranchNames,   \* includes the three names every document starts with
    Requested,     \* bound: the paths that requests give
    MaxDepth,      \* bound: the names of a path
    MaxBranchRows, \* bound: branches of all documents
    MaxMoves,      \* bound: writes of a document
    MaxEdits       \* bound: writes of a branch

ASSUME LibraryAssumption ==
    /\ MaxDepth \in Nat \ {0} /\ MaxMoves \in Nat \ {0} /\ MaxEdits \in Nat \ {0}
    /\ MaxBranchRows \in Nat /\ MaxBranchRows >= 3
    /\ {"dev", "test", "prod"} \subseteq BranchNames

VARIABLES
    folders,   \* document_folders: their paths
    documents, \* documents: where each is, in which folder, and its status
    branch     \* document_branches

libraryVars == <<folders, documents, branch>>

Root == <<>>
Names == Letters \X {"lower", "upper"}
PathsOf(depth) == UNION {[1 .. n -> Names] : n \in 1 .. depth}
DocumentPaths == PathsOf(MaxDepth)
FolderPaths == PathsOf(MaxDepth - 1)
ASSUME RequestedAssumption == Requested \subseteq DocumentPaths
BranchIds == 1 .. MaxBranchRows

\* strings.EqualFold and the lower() of the indexes.
Fold(path) == [i \in DOMAIN path |-> path[i][1]]
EqualFold(p, q) == Fold(p) = Fold(q)

Document ==
    [name : DocumentNames, path : DocumentPaths \cup {Root}, folder : FolderPaths \cup {Root},
     active : BOOLEAN, stamp : 1 .. MaxMoves]
BranchRow ==
    [document : Documents, name : BranchNames, default : BOOLEAN, active : BOOLEAN,
     stamp : 1 .. MaxEdits]

ASSUME LibraryNoneAssumption == None \notin Document \cup BranchRow

LibraryKinds == {"createFolder", "createDocument", "updateDocument", "archiveDocument",
                 "createBranch", "updateBranch", "archiveBranch"}

\* What a request will save, and the document and the branch that its transaction
\* requires to be active still.
LibraryCall ==
    [kind : LibraryKinds, step : {"ready"}, user : Users,
     document : Documents \cup {None}, branch : BranchIds \cup {None},
     newFolders : SUBSET FolderPaths,
     documents : [Documents -> Document \cup {None}],
     branches : [BranchIds -> BranchRow \cup {None}]]

LibraryTypeOK ==
    /\ folders \subseteq FolderPaths
    /\ documents \in [Documents -> Document \cup {None}]
    /\ branch \in [BranchIds -> BranchRow \cup {None}]

-----------------------------------------------------------------------------
(* What is there                                                           *)

RowsOf(table) == {k \in DOMAIN table : table[k] # None}
BranchesOf(d, table) == {b \in RowsOf(table) : table[b].document = d}

\* folderByPathLocked
Found(path) == \E f \in folders : EqualFold(f, path)
FolderByPath(path) == CHOOSE f \in folders : EqualFold(f, path)

\* The folders passed on the way to a file: what is there already, whatever its case,
\* and below it the names that were given.
Way(path) ==
    LET way[n \in 0 .. Len(path)] ==
          IF n = 0 THEN Root
          ELSE LET next == Append(way[n - 1], path[n])
               IN IF Found(next) THEN FolderByPath(next) ELSE next
    IN way

\* A faulty variant: the file becomes a folder as well.
EnsureFoldersToTheEnd(path) ==
    [path |-> path, folder |-> Way(path)[Len(path)],
     new |-> {Way(path)[n] : n \in 1 .. Len(path)} \ folders]

\* Where a document at this path is: folders on the way that are missing are made,
\* and the path stays as it was given.
EnsureDocumentParentFolders(path) ==
    IF path = Root THEN [path |-> Root, folder |-> Root, new |-> {}]
    ELSE [path |-> path, folder |-> Way(path)[Len(path) - 1],
          new |-> {Way(path)[n] : n \in 1 .. Len(path) - 1} \ folders]

InFolder(folder, file) == [path |-> Append(folder, file), folder |-> folder, new |-> {}]

EnsureDocumentPathAvailable(d, path) ==
    path # Root =>
      \A e \in RowsOf(documents) \ {d} : ~EqualFold(documents[e].path, path)

\* nameExists: among all documents of the project, archived ones too.
NameExists(d, name) == \E e \in RowsOf(documents) \ {d} : documents[e].name = name

BranchNameExists(d, b, name) ==
    \E other \in BranchesOf(d, branch) \ {b} : branch[other].name = name

MayManage(u) == CanPublish(u) /\ "project" \notin archived
ActiveContext(u, d) == MayManage(u) /\ documents[d].active

-----------------------------------------------------------------------------
(* Requests                                                                *)

Nowhere == [d \in Documents |-> None]
NoBranches == [b \in BranchIds |-> None]

Plan(c, kind, u, d, b, new, ds, bs) ==
    /\ Enter(c, [kind |-> kind, step |-> "ready", user |-> u, document |-> d, branch |-> b,
                 newFolders |-> new, documents |-> ds, branches |-> bs])
    /\ UNCHANGED <<rows, workload, libraryVars>>

\* Identifiers are random: none is given to two rows, nor to two requests.
Planned(field) ==
    UNION {RowsOf(call[c][field]) : c \in {e \in Clients : call[e].kind \in LibraryKinds}}
FreshDocuments == Documents \ (RowsOf(documents) \cup Planned("documents"))
FreshBranches == BranchIds \ (RowsOf(branch) \cup Planned("branches"))

Touched(row) == [row EXCEPT !.stamp = @ + 1]
MayTouch(table, keys, bound) == \A k \in keys : table[k].stamp < bound

CreateDocumentFolder(c, u, parent, name) ==
    LET path == Append(parent, name) IN
    /\ MayManage(u)
    /\ parent \in folders \cup {Root} /\ path \in FolderPaths
    /\ ~Found(path)
    /\ Plan(c, "createFolder", u, None, None, {path}, Nowhere, NoBranches)

NewBranch(d, name) ==
    [document |-> d, name |-> name, default |-> name = "dev", active |-> TRUE, stamp |-> 1]
DefaultEnvironmentBranches(d, first) ==
    [b \in BranchIds |-> CASE b = first -> NewBranch(d, "dev")
                           [] b = first + 1 -> NewBranch(d, "test")
                           [] b = first + 2 -> NewBranch(d, "prod")
                           [] OTHER -> None]

\* At first there is nothing, or one document.
LibraryInit ==
    /\ folders = {}
    /\ \/ /\ "document" \notin workload
          /\ documents = Nowhere
          /\ branch = NoBranches
       \/ /\ "document" \in workload
          /\ \E d \in Documents, name \in DocumentNames :
                /\ documents = [Nowhere EXCEPT ![d] =
                      [name |-> name, path |-> Root, folder |-> Root, active |-> TRUE, stamp |-> 1]]
                /\ branch = DefaultEnvironmentBranches(d, 1)

CreateDocumentWithLocation(c, u, d, name, place) ==
    LET row == [name |-> name, path |-> place.path, folder |-> place.folder, active |-> TRUE,
                stamp |-> 1] IN
    /\ MayManage(u)
    /\ ~NameExists(d, name)
    /\ EnsureDocumentPathAvailable(d, place.path)
    /\ \E first \in FreshBranches :
          /\ {first + 1, first + 2} \subseteq FreshBranches
          /\ \A b \in FreshBranches : first <= b
          /\ Plan(c, "createDocument", u, None, None, place.new,
                  [Nowhere EXCEPT ![d] = row], DefaultEnvironmentBranches(d, first))

\* The request gives a path or a file name with a folder, or neither.
FirstPlaces ==
    {EnsureDocumentParentFolders(p) : p \in Requested \cup {Root}}
      \cup {InFolder(f, n) : f \in folders \cup {Root}, n \in Names}

\* The request gives a path, a folder, a file name, or something else, and with any of
\* these it may give another name.
NewPlaces(row) ==
    {EnsureDocumentParentFolders(p) : p \in Requested}
      \cup {InFolder(row.folder, n) : n \in Names}
      \cup {InFolder(f, n) : f \in folders \cup {Root},
                              n \in IF row.path = Root THEN {} ELSE {Last(row.path)}}
      \cup {[path |-> row.path, folder |-> row.folder, new |-> {}]}

UpdateDocument(c, u, d, name, place) ==
    LET row == [documents[d] EXCEPT !.name = name, !.path = place.path, !.folder = place.folder] IN
    /\ ActiveContext(u, d)
    /\ name = documents[d].name \/ ~NameExists(d, name)
    /\ EnsureDocumentPathAvailable(d, place.path)
    /\ MayTouch(documents, {d}, MaxMoves)
    /\ Plan(c, "updateDocument", u, d, None, place.new,
            [Nowhere EXCEPT ![d] = Touched(row)], NoBranches)

ArchiveDocument(c, u, d) ==
    /\ ActiveContext(u, d)
    /\ MayTouch(documents, {d}, MaxMoves)
    /\ Plan(c, "archiveDocument", u, d, None, {},
            [Nowhere EXCEPT ![d] = Touched([documents[d] EXCEPT !.active = FALSE])], NoBranches)

CreateBranch(c, u, d, name) ==
    /\ ActiveContext(u, d)
    /\ ~BranchNameExists(d, None, name)
    /\ \E b \in FreshBranches :
          /\ \A e \in FreshBranches : b <= e
          /\ Plan(c, "createBranch", u, d, None, {}, Nowhere,
                  [NoBranches EXCEPT ![b] = [NewBranch(d, name) EXCEPT !.default = FALSE]])

\* A branch is renamed, protected, described, made the default branch, or several of
\* these at once.  A new default touches every branch of the document, and only another
\* branch takes a default away.
Renamed(b, name) == [branch[b] EXCEPT !.name = name]
Rewritten(b, row) == [NoBranches EXCEPT ![b] = Touched(row)]
MadeDefault(d, b, row) ==
    LET rewritten == [branch EXCEPT ![b] = row] IN
    [e \in BranchIds |-> IF e \in BranchesOf(d, branch)
                           THEN Touched([rewritten[e] EXCEPT !.default = (e = b)]) ELSE None]

UpdateBranch(c, u, d, b) ==
    /\ ActiveContext(u, d)
    /\ branch[b].active
    /\ MayTouch(branch, BranchesOf(d, branch), MaxEdits)
    /\ \E name \in {n \in BranchNames : ~BranchNameExists(d, b, n)} \cup {branch[b].name} :
          LET row == Renamed(b, name) IN
          \/ Plan(c, "updateBranch", u, d, b, {}, Nowhere, Rewritten(b, row))
          \/ Plan(c, "updateBranch", u, d, b, {}, Nowhere, MadeDefault(d, b, row))

ArchiveBranch(c, u, d, b) ==
    /\ ActiveContext(u, d)
    /\ branch[b].active /\ ~branch[b].default
    /\ MayTouch(branch, {b}, MaxEdits)
    /\ Plan(c, "archiveBranch", u, d, b, {}, Nowhere,
            [NoBranches EXCEPT ![b] = Touched([branch[b] EXCEPT !.active = FALSE])])

-----------------------------------------------------------------------------
(* Saving                                                                  *)

\* The order of the statements: folders, parents before what is in them; documents;
\* branches, the default branch after the others.  It makes no difference in which
\* order the statements of one wave come.
FolderWave(path) == Len(path)
DocumentWave == MaxDepth

\* A faulty variant: the default branch first.
DefaultFirst(row) == IF row.default THEN MaxDepth + 1 ELSE MaxDepth + 2

BranchWave(row) == IF row.default THEN MaxDepth + 2 ELSE MaxDepth + 1
Waves == 1 .. MaxDepth + 2

Overlaid(table, changes, chosen) ==
    [k \in DOMAIN table |-> IF k \in RowsOf(changes) \cap chosen THEN changes[k] ELSE table[k]]

\* The tables after a wave of a request's statements.
FoldersAfter(r, wave) == folders \cup {p \in r.newFolders : FolderWave(p) <= wave}
DocumentsAfter(r, wave) ==
    Overlaid(documents, r.documents, IF DocumentWave <= wave THEN Documents ELSE {})
BranchesAfter(r, wave) ==
    Overlaid(branch, r.branches,
            {b \in RowsOf(r.branches) : BranchWave(r.branches[b]) <= wave})

Unambiguous(fs, ds) ==
    /\ \A p, q \in fs : EqualFold(p, q) => p = q
    /\ \A d, e \in RowsOf(ds) :
          ds[d].name = ds[e].name \/ EqualFold(ds[d].path, ds[e].path) => d = e

\* The unique indexes and the foreign keys of the three tables.
Constraints(fs, ds, bs) ==
    /\ Unambiguous(fs, ds)
    /\ \A p \in fs : Front(p) \in fs \cup {Root}
    /\ \A d \in RowsOf(ds) : ds[d].folder \in fs \cup {Root}
    /\ \A b \in RowsOf(bs) : bs[b].document \in RowsOf(ds)
    /\ \A b, e \in RowsOf(bs) :
          b # e /\ bs[b].document = bs[e].document =>
            bs[b].name # bs[e].name /\ ~(bs[b].default /\ bs[e].default)

NewRowsFit(r) ==
    /\ \A p \in r.newFolders : \A f \in folders : ~EqualFold(p, f)
    /\ \A w \in Waves : Constraints(FoldersAfter(r, w), DocumentsAfter(r, w), BranchesAfter(r, w))

\* upsertByIDIfUnchanged: a row is inserted, or updated as it was loaded.
AsLoaded(table, changes) ==
    \A k \in RowsOf(changes) :
      IF changes[k].stamp = 1 THEN table[k] = None
      ELSE table[k] # None /\ table[k].stamp = changes[k].stamp - 1

StillAllowed(r) ==
    /\ Permitted(r.user, "admin") /\ "project" \notin archived
    /\ r.document # None => documents[r.document].active
    /\ r.branch # None => branch[r.branch].active

SaveLibrary(c) ==
    LET r == call[c]
        last == MaxDepth + 2
    IN
    /\ At(c, LibraryKinds, "ready")
    /\ IF /\ StillAllowed(r)
          /\ AsLoaded(documents, r.documents) /\ AsLoaded(branch, r.branches)
          /\ NewRowsFit(r)
         THEN /\ folders' = FoldersAfter(r, last)
              /\ documents' = DocumentsAfter(r, last)
              /\ branch' = BranchesAfter(r, last)
         ELSE UNCHANGED libraryVars
    /\ Leave(c)
    /\ UNCHANGED <<rows, workload>>

LibraryNext ==
    \E c \in Clients :
       \/ /\ Free(c, "createFolder")
          /\ \E u \in Users, parent \in folders \cup {Root}, name \in Names :
                CreateDocumentFolder(c, u, parent, name)
       \/ /\ Free(c, "createDocument")
          /\ \E u \in Users, d \in FreshDocuments, name \in DocumentNames, place \in FirstPlaces :
                CreateDocumentWithLocation(c, u, d, name, place)
       \/ \E u \in Users, d \in RowsOf(documents) :
            \/ /\ Free(c, "updateDocument")
               /\ \E name \in DocumentNames, place \in NewPlaces(documents[d]) :
                     UpdateDocument(c, u, d, name, place)
            \/ Free(c, "archiveDocument") /\ ArchiveDocument(c, u, d)
            \/ /\ Free(c, "createBranch")
               /\ \E name \in BranchNames : CreateBranch(c, u, d, name)
            \/ /\ Free(c, "updateBranch")
               /\ \E b \in BranchesOf(d, branch) : UpdateBranch(c, u, d, b)
            \/ /\ Free(c, "archiveBranch")
               /\ \E b \in BranchesOf(d, branch) : ArchiveBranch(c, u, d, b)
       \/ SaveLibrary(c)

-----------------------------------------------------------------------------
(* Properties                                                              *)

\* One folder and one document at a path, and one document of a name, whatever the case;
\* every folder below its parent; a document in the folder its path goes through.
PathsLead(fs, ds) ==
    /\ Unambiguous(fs, ds)
    /\ \A p \in fs : Len(p) > 1 => Front(p) \in fs
    /\ \A d \in RowsOf(ds) :
          IF Len(ds[d].path) < 2 THEN ds[d].folder = Root
          ELSE ds[d].folder \in fs /\ EqualFold(ds[d].folder, Front(ds[d].path))

\* Every document has one default branch, which is not archived, and no two
\* branches of one name.
OneDefault(ds, bs) ==
    \A d \in RowsOf(ds) :
       /\ Cardinality({b \in BranchesOf(d, bs) : bs[b].default}) = 1
       /\ \A b, e \in BranchesOf(d, bs) :
             (bs[b].name = bs[e].name => b = e) /\ (bs[b].default => bs[b].active)

Whole(fs, ds, bs) == PathsLead(fs, ds) /\ OneDefault(ds, bs)

\* The library stays whole whatever two requests decide at once, although the
\* tables do not demand a default branch or a folder that fits the path
\* (CreateDocumentWithLocation, UpdateDocument, CreateDocumentFolder, UpdateBranch,
\* ArchiveBranch); and a request that is still allowed, and whose rows would leave
\* it whole, is saved: the tables never refuse it for the order of its statements
\* (saveDocumentFoldersLocked, saveDocumentWorkflowLocked).
LibraryIsWhole ==
    [][ /\ Whole(folders, documents, branch)'
        /\ \A c \in Clients :
             (call[c].kind \in LibraryKinds /\ call'[c] = Idle) =>
               LET r == call[c]
                   fs == folders \cup r.newFolders
                   ds == Overlaid(documents, r.documents, Documents)
                   bs == Overlaid(branch, r.branches, BranchIds)
               IN (/\ StillAllowed(r) /\ Whole(fs, ds, bs)
                   /\ AsLoaded(documents, r.documents) /\ AsLoaded(branch, r.branches)
                   /\ r.newFolders \cap folders = {})
                  => <<folders, documents, branch>>' = <<fs, ds, bs>>
      ]_<<call, libraryVars>>

=============================================================================
