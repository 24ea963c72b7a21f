----------------------------- MODULE Printer_MC -----------------------------
(* The printer with texts of one, two and three pages, for TLC.             *)
EXTENDS Printer
=============================================================================
