---------------------------- MODULE MCHttpServer ----------------------------
(* Two connections and a queue of one, so that append() can refuse the second (a
   limit of 0 stands for the pool's 10000: the queue holds one request more);
   a number that close_conn has given back is used again by accept. *)
EXTENDS HttpServer
=============================================================================
