CONSTANTS
    Ident = {"a"}
    Literal = {"1"}
    Alphabet = {"a", "-", ".", "=", "(", ")", "[", "]", ",", "eol", "func", "=>", "end", "lexerr"}
    MaxTokens = 3
    Ops = {".", "*", "-", "="}
    Uns = {"neg"}
SPECIFICATION Spec
INVARIANTS
    Balanced
    SourceKept
    GrammarRespected
    Reusable
