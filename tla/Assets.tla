------------------------------- MODULE Assets -------------------------------
(***************************************************************************)
(* The static files of a front server (packages/borgo/src/compress.ts) over*)
(* the tree that Builds keeps writing: the index taken at boot, the        *)
(* variants, revalidation and ranges of client.js, and one client that     *)
(* keeps a copy, asks with or without Accept-Encoding, and resumes with    *)
(* Range and If-Range as rfc 9110 has it: by the entity tag it was given.  *)
(* A file is <<the build it is of, its encoding>>, and so is its tag, which*)
(* is made of the size and the time of the file when the index was taken.  *)
(***************************************************************************)
EXTENDS Builds, FiniteSets

VARIABLES
  index,   \* what client.js and its sibling were at boot, 0 if the index has none;
           \* Nothing: no server
  copy     \* the client's: its tag, the files its bytes are of, whether it is complete;
           \* ghosts: taken from an index that was true, checked since disk or index changed

assetsVars == <<disk, building, built, index, copy>>

Encodings == {"identity", "br"}

\* Without an entity tag, an answer has none that could be mistaken for one.
ASSUME AssetsAssumption == Nothing \notin Nat \X Encodings

AssetsInit == BuildsInit /\ index = Nothing /\ copy = Nothing

Unchecked == IF copy = Nothing THEN Nothing ELSE [copy EXCEPT !.checked = FALSE]

\* `borgo start`: dev assets are built anew first (StartBuild), and so are missing
\* ones; then buildAssetIndex, once.
Boot ==
  /\ disk.mode = "production" /\ disk.entry # 0
  /\ index' = [identity |-> disk.entry, br |-> disk.sibling]
  /\ copy' = Unchecked
  /\ UNCHANGED buildsVars

\* A dev server has no index, and looks at the disk each time.
BootDev ==
  /\ disk.mode = "dev" /\ disk.entry # 0
  /\ index' = [identity |-> 0, br |-> 0]
  /\ copy' = Unchecked
  /\ UNCHANGED buildsVars

Indexed == index # Nothing /\ index.identity # 0
\* The files are those the index was taken of.
IndexIsTrue ==
  Indexed => /\ index.identity = disk.entry
             /\ index.br # 0 => disk.sibling \in {0, index.br}

\* The choice of serveIndexed: the sibling if it is accepted, indexed and still
\* there; of serveAsset: if it is there.
Choice(accepted) ==
  IF accepted = "br" /\ disk.sibling # 0 /\ (Indexed => index.br # 0) THEN "br" ELSE "identity"

\* serveAsset gives no tag.
Tag(encoding) == IF Indexed THEN <<index[encoding], encoding>> ELSE Nothing
Body(encoding) == <<IF encoding = "br" THEN disk.sibling ELSE disk.entry, encoding>>

\* isNotModified, for a request that names a tag.
IsNotModified(given, encoding) == Indexed /\ given = Tag(encoding)

\* Variant: If-Range is not consulted, as bun itself does not.
IsRangeStaleNever(given, encoding) == FALSE

\* isRangeStale: the range is for another file than the one served now.
IsRangeStale(given, encoding) == given # Tag(encoding)

\* A whole representation, all of which arrives or a part.
Sent(tag, file) ==
  \E whole \in BOOLEAN :
    copy' = [tag |-> tag, parts |-> {file}, whole |-> whole,
             sure |-> IndexIsTrue, checked |-> whole]

Served(encoding) == disk.entry # 0 /\ Sent(Tag(encoding), Body(encoding))

\* The client asks for the file, conditionally when it has one.
Get ==
  /\ index # Nothing
  /\ \E accepted \in Encodings :
       LET encoding == Choice(accepted)
       IN IF copy # Nothing /\ copy.whole /\ IsNotModified(copy.tag, encoding)
          THEN copy' = [copy EXCEPT !.checked = TRUE]
          ELSE Served(encoding)
  /\ UNCHANGED <<disk, building, built, index>>

\* A client that has a part and a tag asks for the rest.  serveAsset leaves the
\* range to bun, which does not consult If-Range.
Resume ==
  /\ index # Nothing /\ copy # Nothing /\ ~copy.whole /\ copy.tag # Nothing
  /\ \E accepted \in Encodings :
       LET encoding == Choice(accepted)
       IN IF Indexed /\ IsRangeStale(copy.tag, encoding) THEN Served(encoding)
          ELSE /\ disk.entry # 0
               /\ copy' = [copy EXCEPT !.parts = @ \cup {Body(encoding)}, !.whole = TRUE,
                             !.sure = @ /\ Indexed /\ IndexIsTrue, !.checked = Indexed]
  /\ UNCHANGED <<disk, building, built, index>>

AssetsNext ==
  \/ BuildsStep /\ copy' = Unchecked /\ UNCHANGED index
  \/ Boot \/ BootDev \/ Get \/ Resume

AssetsSpec == AssetsInit /\ [][AssetsNext]_assetsVars

\* A complete copy is one file, the one its tag stands for, unless a build wrote
\* under the index while it was taken, or the rest came from a server without an
\* index; and as long as the index is true, a copy that was served or validated is
\* of the current build, whatever it was before; compress.ts:77-82, 154, 169-178.
CopiesAreTrue ==
  copy # Nothing /\ copy.whole =>
    /\ copy.sure => IF copy.tag = Nothing THEN Cardinality(copy.parts) = 1
                                       ELSE copy.parts = {copy.tag}
    /\ copy.checked /\ IndexIsTrue => \A file \in copy.parts : file[1] = disk.entry
=============================================================================
