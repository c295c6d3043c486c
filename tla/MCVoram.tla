------------------------------- MODULE MCVoram ------------------------------
EXTENDS Voram

\* Two versions of data that never fits one node.
MCContents == {<<>>, <<"a1", "a2", "a3">>, <<"b1", "b2">>}

\* Two blobs compete for the nodes of the small tree; one of them is there
\* when it grows, and moves to the other half of the tree or to a sibling.
MCMaxBlobs == <<2, 1>>
MCLeaves   == <<{4, 6}, {4, 5, 6}>>
=============================================================================
