\* One run, every task of at most two keywords, five answers of the planner.
SPECIFICATION Spec
CONSTANTS
    None = None
    Agents = {"planner", "retriever", "executor", "summarizer", "coder"}
    Owner <- MCOwner
    First <- MCFirst
    Tasks <- MCTasks
    Answers <- MCAnswers
CHECK_DEADLOCK FALSE
INVARIANTS
    ToolTasksAreExecuted
    AnswerKeepsWork
