---- MODULE MCReply ----
EXTENDS Reply
====
