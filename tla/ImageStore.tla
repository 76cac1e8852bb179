----------------------------- MODULE ImageStore ------------------------------
(***************************************************************************)
(* OCIManager and its CAS (src/src/store/oci.rs, cas.rs): importing OCI      *)
(* images from layout directories and from archives into an index from      *)
(* layer digests to paths of blobs.  Nothing is copied into the store: the   *)
(* index points to where the blobs were found.                               *)
(***************************************************************************)
EXTENDS Integers, Sequences, Functions, TLC

CONSTANTS
    Sources,     \* what can be imported: a function from names to images
                 \* [archive, readable, manifests, layers, blobs]: a list of
                 \* digests each, and the set of blobs that are there
    MaxImports   \* bound: calls of import

VARIABLES
    trees,    \* the directories that exist: a source, or a temporary one
              \* (<<"extract", n>>), each with the source whose files it holds
    index,    \* CASInner.index: digest to the directory of the blob
    call,     \* the import in progress
    imports,  \* calls so far; uuids of temporary directories
    result    \* of the last import: a digest, or "Err"

ivars == <<trees, index, call, imports, result>>

None == [at |-> "idle", source |-> "none", dir |-> <<>>, i |-> 0]
Source == Sources[call.source]

IInit ==
    /\ trees = [d \in {<<s>> : s \in {s \in DOMAIN Sources : ~Sources[s].archive}} |-> d[1]]
    /\ index = << >>
    /\ call = None /\ imports = 0 /\ result = "none"

Goes(at) == call' = [call EXCEPT !.at = at] /\ UNCHANGED result
Returns(r) == call' = None /\ result' = r

\* blob_path_from_digest, and whether there is a file.
BlobExists(dir, digest) ==
    dir \in DOMAIN trees /\ digest \in Sources[trees[dir]].blobs

\* import: a directory is read where it is, anything else is an archive.
import(s) ==
    /\ call = None /\ imports < MaxImports
    /\ imports' = imports + 1
    /\ call' = [at |-> IF Sources[s].archive THEN "extract" ELSE "index", source |-> s,
                dir |-> IF Sources[s].archive THEN <<"extract", imports>> ELSE <<s>>, i |-> 1]
    /\ UNCHANGED <<trees, index, result>>

\* import_tar: the temporary directory is made first and stays behind when the
\* archive cannot be opened or unpacked.
ExtractTar ==
    /\ call.at = "extract"
    /\ trees' = (call.dir :> call.source) @@ trees
    /\ IF Source.readable THEN Goes("index") ELSE Returns("Err")
    /\ UNCHANGED <<index, imports>>

\* import_directory: index.json, its first manifest, and that manifest's blob.
ReadManifest ==
    /\ call.at = "index"
    /\ IF /\ Source.readable /\ Source.manifests # <<>>
          /\ BlobExists(call.dir, Source.manifests[1])
       THEN Goes("layers") ELSE Returns("Err")
    /\ UNCHANGED <<trees, index, imports>>

\* CAS::register for each layer; a blob that is missing is only a warning.
RegisterLayer ==
    /\ call.at = "layers" /\ call.i <= Len(Source.layers)
    /\ LET digest == Source.layers[call.i] IN
       index' = IF BlobExists(call.dir, digest) THEN (digest :> call.dir) @@ index ELSE index
    /\ call' = [call EXCEPT !.i = @ + 1]
    /\ UNCHANGED <<trees, imports, result>>

\* The directory is done; import_tar removes the temporary one, and a failure to
\* do so is only a warning.
ImportReturns ==
    /\ call.at = "layers" /\ call.i > Len(Source.layers)
    /\ \/ trees' = IF Source.archive THEN Restrict(trees, DOMAIN trees \ {call.dir}) ELSE trees
       \/ Source.archive /\ UNCHANGED trees
    /\ Returns(Source.manifests[1])
    /\ UNCHANGED <<index, imports>>

INext ==
    \/ \E s \in DOMAIN Sources : import(s)
    \/ ExtractTar \/ ReadManifest \/ RegisterLayer \/ ImportReturns
    \/ imports = MaxImports /\ call = None /\ UNCHANGED ivars

ISpec == IInit /\ [][INext]_ivars

-----------------------------------------------------------------------------
(* Property *)

\* "Maps digest (sha256:...) to local filesystem path" and "Layer path does not
\* exist" (cas.rs), "Verify blobs can be retrieved" (tests/oci.rs, of an imported
\* directory): what get returns for a registered digest is the path of a blob.
\* It is not: the layers of an archive are registered in the directory that
\* import_tar removes.
RegisteredBlobExists ==
    call = None => \A digest \in DOMAIN index : BlobExists(index[digest], digest)
=============================================================================
