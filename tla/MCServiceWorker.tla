-------------------------- MODULE MCServiceWorker --------------------------
(* The service worker alone: two builds, and a sw.js that nobody edits.    *)
EXTENDS ServiceWorker
=============================================================================
