-------------------------- MODULE MCMemeLifecycle --------------------------
(* Instances of MemeLifecycle for TLC: a parsed meme and an upload, and    *)
(* two parsed memes with a later upload.                                   *)
EXTENDS MemeLifecycle
TwoMemes == {1, 2}
ThreeMemes == {1, 2, 3}
=============================================================================
