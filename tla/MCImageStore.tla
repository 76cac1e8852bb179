---------------------------- MODULE MCImageStore -----------------------------
(* A layout directory, an archive of an image that shares a layer with it, and *)
(* an archive that cannot be read.                                            *)
EXTENDS ImageStore

MCImage(archive, readable, layers, blobs) ==
    [archive |-> archive, readable |-> readable, manifests |-> <<"m">>, layers |-> layers,
     blobs |-> blobs]

MCSources ==
    "dir"     :> MCImage(FALSE, TRUE, <<"base", "app">>, {"m", "base", "app"}) @@
    "tar"     :> MCImage(TRUE, TRUE, <<"base", "lost">>, {"m", "base"}) @@
    "damaged" :> MCImage(TRUE, FALSE, <<"base">>, {})
=============================================================================
