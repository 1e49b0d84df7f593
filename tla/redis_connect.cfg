\* A client without a password, as in the integration test.
SPECIFICATION Spec
CONSTANT HasPassword = FALSE
INVARIANT ConnectSucceeds
