---------------------------- MODULE MCNoteSync ----------------------------
EXTENDS NoteSync
=============================================================================
