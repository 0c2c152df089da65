------------------------------ MODULE MCDesktop ------------------------------
(* A small instance of Desktop. *)
EXTENDS Desktop

\* HandlerEnds for one request, which stands for all: no step tells the
\* members of Call apart (the thread that answers, do_GET and its siblings).
HandlersEnd == HandlerEnds(CHOOSE c \in Call : TRUE)
=============================================================================
