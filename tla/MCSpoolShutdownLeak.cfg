SPECIFICATION Spec
CONSTANTS
    Handlers = {h1, h2}
INVARIANTS ExitCleans
