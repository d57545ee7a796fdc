------------------------------ MODULE MCFetch ------------------------------
(***************************************************************************)
(* Small files of every shape the assembly tells apart, those among them   *)
(* that are not well made.  A byte is the number of its place in the file. *)
(***************************************************************************)
EXTENDS Fetch, TLC

Leaf(data) == [kind |-> "leaf", stored |-> data, data |-> data, links |-> <<>>]

\* An envelope: the bytes, one 0 for a link, and one where there is neither.
Envelope(data, links) ==
    IF data = <<>> /\ links = <<>> THEN <<0>> ELSE data \o [i \in DOMAIN links |-> 0]
Node(data, links) ==
    [kind |-> "file", stored |-> Envelope(data, links), data |-> data, links |-> links]
Folder(links) == [Node(<<>>, links) EXCEPT !.kind = "folder"]
Of(type, filesize, block) == [root |-> "root", mime |-> type, filesize |-> filesize, block |-> block]

\* Three leaves; two of them behind a further block, with a leaf after them; some
\* bytes in the root, leaves and a folder behind a further block, two more leaves.
Flat(type, size) ==
    Of(type, size, "root" :> Node(<<>>, <<"a", "b", "c">>) @@ "a" :> Leaf(<<1, 2>>)
                   @@ "b" :> Leaf(<<3, 4>>) @@ "c" :> Leaf(<<5, 6>>))
Deep(type, size) ==
    Of(type, size, "root" :> Node(<<>>, <<"n", "c">>) @@ "n" :> Node(<<>>, <<"a", "b">>)
                   @@ "a" :> Leaf(<<1, 2>>) @@ "b" :> Leaf(<<3, 4>>) @@ "c" :> Leaf(<<5, 6>>))
Mixed(type, size) ==
    Of(type, size, "root" :> Node(<<1, 2>>, <<"n", "c", "e">>) @@ "n" :> Node(<<>>, <<"a", "d", "b">>)
                   @@ "a" :> Leaf(<<3>>) @@ "b" :> Leaf(<<4>>) @@ "c" :> Leaf(<<5>>) @@ "e" :> Leaf(<<6>>)
                   @@ "d" :> Folder(<<"e">>))

\* An empty block between two leaves; a block that has bytes and links.
Hollow(type) ==
    Of(type, 0, "root" :> Node(<<>>, <<"a", "h", "b">>) @@ "a" :> Leaf(<<1, 2>>)
                @@ "h" :> Node(<<>>, <<>>) @@ "b" :> Leaf(<<3>>))
Both(type) ==
    Of(type, 0, "root" :> Node(<<1, 2>>, <<"n", "b">>) @@ "n" :> Node(<<3>>, <<"a">>)
                @@ "a" :> Leaf(<<4>>) @@ "b" :> Leaf(<<5>>))

\* Whole, without a filesize, above the budget for PDFs, with a block too large,
\* without links, a folder, less than can be sniffed, and not well made.
Usual ==
    {Flat("pdf", 6), Flat("text", 0), Flat("other", 6), Flat("pdf", 9), Deep("pdf", 0),
     Deep("text", 6), Mixed("pdf", 6), Mixed("text", 0), Mixed("other", 6),
     Of("text", 0, "root" :> Leaf(<<1, 2, 3>>)),
     Of("text", 0, "root" :> Folder(<<"a">>) @@ "a" :> Leaf(<<>>)),
     Of("pdf", 7, "root" :> Node(<<>>, <<"a", "b">>) @@ "a" :> Leaf(<<1>>) @@ "b" :> Leaf(<<2, 3, 4, 5, 6, 7>>)),
     Of("text", 1, "root" :> Node(<<>>, <<"a">>) @@ "a" :> Leaf(<<1>>)),
     Hollow("pdf"), Hollow("text"), Both("pdf"), Both("text"), Both("other")}
=============================================================================
