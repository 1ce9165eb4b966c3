-------------------------- MODULE MCEditorBridge --------------------------
EXTENDS EditorBridge

\* The session had both files open, the second in front.
AtLaunch == <<"a", "b">>
===========================================================================
