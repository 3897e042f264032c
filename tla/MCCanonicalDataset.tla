------------------------ MODULE MCCanonicalDataset ------------------------
(***************************************************************************)
(* Two assets and a manifest, so that a removal can stop with the manifest *)
(* and without an asset or the other way round; three seeds on at most two *)
(* workers, so that a seed starts while another is publishing or after one *)
(* has failed; two versions of the raw data.  Six directories are enough:  *)
(* the target, a staging and an opened directory per running process, and  *)
(* one.                                                                    *)
(***************************************************************************)
EXTENDS CanonicalDataset

MCAssets == {"train", "test"}
MCVersions == {1, 2}
=============================================================================
