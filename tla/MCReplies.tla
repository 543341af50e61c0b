------------------------------ MODULE MCReplies ------------------------------
\* A small instance of Replies for TLC.
EXTENDS Replies
=============================================================================
