--------------------------- MODULE MCFileTransfer ---------------------------
(* Two clients and the server of Lab02, with files of no, one and two buffers
   (the line of an error is as long as the longest). *)
EXTENDS FileTransfer, TLC

CONSTANTS c1, c2

(* The clients upload files of their own names, with and without a space ... *)
MCApart == (Store :> ("s" :> 2 @@ "e" :> 0 @@ "s t" :> 1))
           @@ (c1 :> ("a" :> 2)) @@ (c2 :> ("e" :> 0 @@ "s t" :> 1 @@ "e -1" :> 1))

(* ... or of one name. *)
MCShared == (Store :> ("s" :> 1)) @@ (c1 :> ("a" :> 2)) @@ (c2 :> ("a" :> 2))

MCSpaced == ("s t" :> [file |-> "s", n |-> 0]) @@ ("e -1" :> [file |-> "e", n |-> -1])
MCNoSpaces == <<>>
=============================================================================
