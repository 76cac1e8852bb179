----------------------------- MODULE MCVolumes ------------------------------
(***************************************************************************)
(* Three manifests: an emptyDir that is named like a secret's directory, two *)
(* versions of one secret (they share a directory), and the kinds that       *)
(* outlive the container, with sizes and references that do not parse.       *)
(***************************************************************************)
EXTENDS Volumes

MCVolume(name, kind, tmpf, size, ref, items) ==
    [name |-> name, kind |-> kind, tmpfs |-> tmpf, size |-> size, ref |-> ref,
     items |-> items]

MCToken(name, version) ==
    MCVolume(<<name>>, "secret", FALSE, "none", <<"tok", version>>, <<>>)

MCManifests == {
    {MCVolume(<<"secret", "tok">>, "emptyDir", TRUE, "ok", <<>>, <<>>),
     MCVolume(<<"cache">>, "emptyDir", TRUE, "bad", <<>>, <<>>),
     MCToken("tok-vol", "1")},
    {MCToken("tok-vol", "1"), MCToken("tok-new", "2"),
     MCVolume(<<"scratch">>, "emptyDir", FALSE, "none", <<>>, <<>>)},
    {MCVolume(<<"conf">>, "config", FALSE, "none", <<>>, <<"k1", "k2">>),
     MCVolume(<<"db">>, "named", FALSE, "bad", <<>>, <<>>),
     MCVolume(<<"logs">>, "hostPath", FALSE, "none", <<>>, <<>>),
     MCVolume(<<"tok-bad">>, "secret", FALSE, "none", <<>>, <<>>),
     MCVolume(<<"mem">>, "emptyDir", TRUE, "ok", <<>>, <<>>)}}

MCSecrets == {<<"tok", "1">>, <<"tok", "2">>}
MCSecretKeys == <<"k1">>
MCHostPaths == {<<"logs">>}
=============================================================================
